---- MODULE Spec2Model ----
(***************************************************************************)
(* Verification model of the OpenDAL access layer.                         *)
(*                                                                         *)
(* Part I   ConcurrentLimitLayer / ConcurrentLimitAccessor                 *)
(*          (src/src/layers/concurrent_limit.rs): a tokio semaphore gates  *)
(*          every accessor operation; readers and pagers own a permit.     *)
(* Part II  HdfsBackend (src/src/services/hdfs/backend.rs): create, read,  *)
(*          write, stat and delete over an HDFS name space.                *)
(* Part III Error (src/src/error.rs) and the conversions of the backends'  *)
(*          native errors into it (services/*/error.rs, ftp/err.rs).       *)
(* Part IV  Builder::from_env (src/src/builder.rs).                        *)
(* Part V   HdfsBuilder and RocksdbBuilder: setters, from_map and build.   *)
(* Part VI  The azdfs DirStream pager (services/azdfs/dir_stream.rs).      *)
(* Part VII as_streamable / IntoStream                                     *)
(*          (raw/io/output/into_reader/as_streamable.rs).                  *)
(* Part VIII Concurrent HdfsBackend::delete calls on one path.             *)
(***************************************************************************)
EXTENDS Integers, Sequences, FiniteSets, TLC

(***************************************************************************)
(* Bounds of the model.                                                    *)
(***************************************************************************)
\* Concurrent callers (tasks or threads) of the layered accessor.
NumCallers == 3
\* Largest permit count given to ConcurrentLimitLayer::new.
MaxPermits == 1

Callers == 1 .. NumCallers

\* The layered accessor built by layer() and a clone of it, and the
\* semaphores an Arc of theirs can point to.
Handles == {"layered", "clone"}
SemIds == {"sem", "other"}
NoSem == "none"

(***************************************************************************)
(* Part I: state of the concurrent limit layer.                            *)
(*   permits    the permits the layer was built with                       *)
(*   semOf      accessor handle -> the semaphore its Arc points to         *)
(*   available  semaphore -> permits not handed out                        *)
(*   waiters    semaphore -> FIFO queue of callers parked in acquire       *)
(*   pc, op     each caller's position and the operation it runs           *)
(*   held       the semaphore whose permit the caller's frame, reader or   *)
(*              pager owns (NoSem: none)                                   *)
(*   exhausted  the caller's reader/pager has reported end of data         *)
(*   order      history: callers with an unserved request, oldest first    *)
(***************************************************************************)
VARIABLES permits, semOf, available, waiters, pc, op, held, exhausted, order

limitVars == <<permits, semOf, available, waiters, pc, op, held, exhausted, order>>

\* Part II's state (described there); it is at rest while Part I runs.
VARIABLES fs, last, again, rt, full

hdfsVars == <<fs, last, again, rt, full>>

\* Part III's state (described there).
VARIABLES err, call, build, assigned, rendered

errorVars == <<err, call, build, assigned, rendered>>

\* Part IV's state (described there).
VARIABLES environ, built

builderVars == <<environ, built>>

\* Part V's state (described there).
VARIABLES hdfsBuilder, rocksdbBuilder, config

configVars == <<hdfsBuilder, rocksdbBuilder, config>>

\* Part VI's state (described there).
VARIABLES listing, stream, reply, requests, delivered, ended

pagerVars == <<listing, stream, reply, requests, delivered, ended>>

\* Part VII's state (described there).
VARIABLES content, cap, pos, chunks, polled

streamVars == <<content, cap, pos, chunks, polled>>

\* Part VIII's state (described there).
VARIABLES tree, began, deleter

raceVars == <<tree, began, deleter>>

\* What a step of one part leaves alone: the state of the other parts.
notLimitVars ==
    <<hdfsVars, errorVars, builderVars, configVars, pagerVars, streamVars,
      raceVars>>
notHdfsVars ==
    <<limitVars, errorVars, builderVars, configVars, pagerVars, streamVars,
      raceVars>>
notErrorVars ==
    <<limitVars, hdfsVars, builderVars, configVars, pagerVars, streamVars,
      raceVars>>
notBuilderVars ==
    <<limitVars, hdfsVars, errorVars, configVars, pagerVars, streamVars,
      raceVars>>
notConfigVars ==
    <<limitVars, hdfsVars, errorVars, builderVars, pagerVars, streamVars,
      raceVars>>
notPagerVars ==
    <<limitVars, hdfsVars, errorVars, builderVars, configVars, streamVars,
      raceVars>>
notStreamVars ==
    <<limitVars, hdfsVars, errorVars, builderVars, configVars, pagerVars,
      raceVars>>
notRaceVars ==
    <<limitVars, hdfsVars, errorVars, builderVars, configVars, pagerVars,
      streamVars>>

\* Operations that take a borrowed permit (`let _permit = ...acquire().await`).
AsyncSimpleOps ==
    {"create", "write", "stat", "delete", "create_multipart",
     "write_multipart", "complete_multipart", "abort_multipart"}

\* Operations that take an owned permit and hand it to the reader or pager.
AsyncStreamOps == {"read", "list"}

AsyncOps == AsyncSimpleOps \cup AsyncStreamOps

\* Blocking operations: try_acquire / try_acquire_owned.
BlockingSimpleOps ==
    {"blocking_create", "blocking_write", "blocking_stat", "blocking_delete"}

BlockingStreamOps == {"blocking_read", "blocking_list"}

BlockingOps == BlockingSimpleOps \cup BlockingStreamOps

StreamOps == AsyncStreamOps \cup BlockingStreamOps

GatedOps == AsyncOps \cup BlockingOps

\* The operation ConcurrentLimitAccessor does not override: the layer
\* framework forwards it to the inner accessor unchanged.  (metadata() is
\* forwarded the same way; it performs no I/O and is left out.)
ForwardedOps == {"presign"}

\* ---- sequence helpers -------------------------------------------------
InSeq(x, s) == \E i \in 1 .. Len(s) : s[i] = x

IndexOf(x, s) == CHOOSE i \in 1 .. Len(s) : s[i] = x

Remove(x, s) == SelectSeq(s, LAMBDA y : y # x)

Precedes(s, x, y) == InSeq(x, s) /\ InSeq(y, s) /\ IndexOf(x, s) < IndexOf(y, s)

\* ---- tokio::sync::Semaphore as the layer uses it ----------------------
\* Mutant of NextWaiter: the newest waiter is served first.
NewestWaiter(q) == q[Len(q)]

\* The waiter the semaphore serves next.
NextWaiter(q) == Head(q)

\* The queue after a caller has parked itself in acquire().
Enqueue(q, c) == Append(q, c)

\* try_acquire: a permit is taken only from the free count.
CanTake(s) == available[s] > 0

\* Dropping a permit of semaphore s owned by caller c, which moves on to
\* position `to`.  The permit goes to the oldest waiter, and to the free
\* count only when nobody waits.
Release(s, c, to) ==
    IF waiters[s] # <<>>
    THEN LET h == NextWaiter(waiters[s]) IN
         /\ waiters' = [waiters EXCEPT ![s] = Remove(h, @)]
         /\ held' = [held EXCEPT ![c] = NoSem, ![h] = s]
         /\ pc' = [pc EXCEPT ![c] = to, ![h] = "granted"]
         /\ order' = Remove(h, order)
         /\ available' = available
    ELSE /\ available' = [available EXCEPT ![s] = @ + 1]
         /\ held' = [held EXCEPT ![c] = NoSem]
         /\ pc' = [pc EXCEPT ![c] = to]
         /\ UNCHANGED <<waiters, order>>

\* ---- construction ------------------------------------------------------
\* ConcurrentLimitLayer::layer: Arc::new(Semaphore::new(self.permits)).
LayerSemaphore == "sem"

\* Mutant of CloneSemaphore: the clone is given a semaphore of its own.
CloneFreshSemaphore(s) == "other"

\* #[derive(Clone)] on ConcurrentLimitAccessor: Arc::clone, the clone's
\* semaphore is the semaphore of the accessor it is cloned from.
CloneSemaphore(s) == s

\* ConcurrentLimitLayer::new(k).layer(inner), and one clone of the result.
InitLimit ==
    /\ permits \in 0 .. MaxPermits
    /\ semOf = [a \in Handles |->
                 IF a = "layered" THEN LayerSemaphore ELSE CloneSemaphore(LayerSemaphore)]
    /\ available = [s \in SemIds |->
                     IF \E a \in Handles : semOf[a] = s THEN permits ELSE 0]
    /\ waiters = [s \in SemIds |-> <<>>]
    /\ pc = [c \in Callers |-> "idle"]
    /\ op = [c \in Callers |-> "none"]
    /\ held = [c \in Callers |-> NoSem]
    /\ exhausted = [c \in Callers |-> FALSE]
    /\ order = <<>>

\* ---- async operations --------------------------------------------------
\* semaphore.acquire().await / acquire_owned().await, first poll: take a free
\* permit and call the inner accessor, or park at the back of the queue.
AcquireAsync(c, s) ==
    IF CanTake(s)
    THEN /\ available' = [available EXCEPT ![s] = @ - 1]
         /\ held' = [held EXCEPT ![c] = s]
         /\ pc' = [pc EXCEPT ![c] = "inner"]
         /\ UNCHANGED <<waiters, order>>
    ELSE /\ waiters' = [waiters EXCEPT ![s] = Enqueue(@, c)]
         /\ order' = Append(order, c)
         /\ pc' = [pc EXCEPT ![c] = "waiting"]
         /\ UNCHANGED <<available, held>>

CallAsync ==
    \E c \in Callers, a \in Handles, o \in AsyncOps :
        /\ pc[c] = "idle"
        /\ op' = [op EXCEPT ![c] = o]
        /\ AcquireAsync(c, semOf[a])
        /\ UNCHANGED <<permits, semOf, exhausted, notLimitVars>>

\* A woken waiter is polled again: acquire returns the permit it was handed
\* and the inner accessor is called.
Resume ==
    \E c \in Callers :
        /\ pc[c] = "granted"
        /\ pc' = [pc EXCEPT ![c] = "inner"]
        /\ UNCHANGED <<permits, semOf, available, waiters, op, held, exhausted, order, notLimitVars>>

\* The pending future of an async operation is dropped by its caller.
Cancel ==
    \E c \in Callers :
        /\ op[c] \in AsyncOps
        /\ \/ /\ pc[c] = "waiting"
              /\ waiters' = [s \in SemIds |-> Remove(c, waiters[s])]
              /\ order' = Remove(c, order)
              /\ pc' = [pc EXCEPT ![c] = "idle"]
              /\ UNCHANGED <<available, held>>
           \/ /\ pc[c] \in {"granted", "inner"}
              /\ Release(held[c], c, "idle")
        /\ op' = [op EXCEPT ![c] = "none"]
        /\ UNCHANGED <<permits, semOf, exhausted, notLimitVars>>

\* ---- blocking operations -----------------------------------------------
\* Mutant of AcquireBlocking: the failed try_acquire is ignored and the inner
\* accessor is called without a permit.
AcquireBlockingUnchecked(c, s) ==
    IF available[s] > 0
    THEN /\ available' = [available EXCEPT ![s] = @ - 1]
         /\ held' = [held EXCEPT ![c] = s]
         /\ pc' = [pc EXCEPT ![c] = "inner"]
    ELSE /\ pc' = [pc EXCEPT ![c] = "inner"]
         /\ UNCHANGED <<available, held>>

\* try_acquire().expect(..): a free permit or a panic; never parks.
AcquireBlocking(c, s) ==
    IF CanTake(s)
    THEN /\ available' = [available EXCEPT ![s] = @ - 1]
         /\ held' = [held EXCEPT ![c] = s]
         /\ pc' = [pc EXCEPT ![c] = "inner"]
    ELSE /\ pc' = [pc EXCEPT ![c] = "panicked"]
         /\ UNCHANGED <<available, held>>

CallBlocking ==
    \E c \in Callers, a \in Handles, o \in BlockingOps :
        /\ pc[c] = "idle"
        /\ AcquireBlocking(c, semOf[a])
        /\ op' = [op EXCEPT ![c] = IF pc'[c] = "panicked" THEN "none" ELSE o]
        /\ UNCHANGED <<permits, semOf, waiters, exhausted, order, notLimitVars>>

\* ---- operations the layer does not intercept ---------------------------
CallForwarded ==
    \E c \in Callers, a \in Handles, o \in ForwardedOps :
        /\ pc[c] = "idle"
        /\ op' = [op EXCEPT ![c] = o]
        /\ pc' = [pc EXCEPT ![c] = "inner"]
        /\ UNCHANGED <<permits, semOf, available, waiters, held, exhausted, order, notLimitVars>>

\* ---- the inner call returns --------------------------------------------
\* Mutant of KeepsPermit: the permit of every operation is leaked on return.
KeepsPermitAlways(o, ok) == TRUE

\* Mutant of KeepsPermit: a failed read or list keeps its permit.
KeepsPermitOnError(o, ok) == o \in StreamOps

\* Whether the permit outlives the inner call of operation o: Ok of read or
\* list moves it into the reader or pager (.map(..)), every other return
\* drops it with the frame.
KeepsPermit(o, ok) == ok /\ o \in StreamOps

\* Ok((rp, reader)) / Ok((rp, pager)) leaves the caller with a live stream.
ReturnsStream(o, ok) == ok /\ o \in StreamOps

InnerReturn ==
    \E c \in Callers, ok \in BOOLEAN :
        LET to == IF ReturnsStream(op[c], ok) THEN "stream" ELSE "idle" IN
        /\ pc[c] = "inner"
        /\ IF held[c] = NoSem \/ KeepsPermit(op[c], ok)
           THEN /\ pc' = [pc EXCEPT ![c] = to]
                /\ UNCHANGED <<available, waiters, held, order>>
           ELSE Release(held[c], c, to)
        /\ op' = [op EXCEPT ![c] = IF to = "idle" THEN "none" ELSE @]
        /\ UNCHANGED <<permits, semOf, exhausted, notLimitVars>>

\* ---- readers and pagers -------------------------------------------------
\* Mutant of ReachesEnd: the wrapper gives its permit up at end of data.
ReachesEndDropsPermit(c) ==
    /\ exhausted' = [exhausted EXCEPT ![c] = TRUE]
    /\ Release(held[c], c, "stream")
    /\ UNCHANGED <<permits, semOf, op, notLimitVars>>

\* poll_read / read reaches end of data, or next_page returns None: the
\* wrapper only delegates to the inner reader or pager.
ReachesEnd(c) ==
    /\ exhausted' = [exhausted EXCEPT ![c] = TRUE]
    /\ UNCHANGED <<permits, semOf, available, waiters, pc, op, held, order, notLimitVars>>

Exhaust ==
    \E c \in Callers :
        /\ pc[c] = "stream"
        /\ ~exhausted[c]
        /\ ReachesEnd(c)

\* The reader or pager is dropped: its _permit field is dropped with it.
Drop ==
    \E c \in Callers :
        /\ pc[c] = "stream"
        /\ Release(held[c], c, "idle")
        /\ op' = [op EXCEPT ![c] = "none"]
        /\ exhausted' = [exhausted EXCEPT ![c] = FALSE]
        /\ UNCHANGED <<permits, semOf, notLimitVars>>

NextLimit ==
    \/ CallAsync
    \/ Resume
    \/ Cancel
    \/ CallBlocking
    \/ CallForwarded
    \/ InnerReturn
    \/ Exhaust
    \/ Drop

(***************************************************************************)
(* Part II: HdfsBackend over an HDFS name space (hdrs::Client).            *)
(*                                                                         *)
(* The name space is the root directory, which build() creates, and two    *)
(* nodes below it: "d" and its child "d/f".  Either node may be absent, a   *)
(* directory or a file.  Operations take the absolute path build_rooted_   *)
(* abs_path yields.  The client is modelled without I/O faults: an         *)
(* hdrs call fails only for the reason HDFS gives (missing path, a file    *)
(* where a directory is needed, a directory that is not empty).            *)
(***************************************************************************)
\* Longest content written in one write.
MaxLen == 2

Bytes == {"x", "y"}

Contents == UNION {[1 .. k -> Bytes] : k \in 0 .. MaxLen}

Nodes == {"d", "d/f"}

Root == "/"

Parent(n) == IF n = "d/f" THEN "d" ELSE Root

\* Option::None of BytesRange::offset() / size().
None == -1

\* Offsets and sizes a caller may ask for: absent, inside and past the end.
OptVals == {None} \cup (0 .. (MaxLen + 1))

(***************************************************************************)
(*   fs    node -> [kind: "none" | "file" | "dir", data: bytes]            *)
(*   last  the latest call on the backend and what it returned             *)
(*   again history: the latest call repeats the call before it (same       *)
(*         operation, node and mode), and that call succeeded              *)
(*   rt    history: progress of a write; read; stat; delete; stat chain    *)
(*   full  history: the latest call found a file with content at its path  *)
(***************************************************************************)
NoEntry == [kind |-> "none", data |-> <<>>]

DirEntry == [kind |-> "dir", data |-> <<>>]

FileEntry(b) == [kind |-> "file", data |-> b]

KindOf(f, n) == IF n = Root THEN "dir" ELSE f[n].kind

Children(f, n) == {m \in Nodes : Parent(m) = n /\ f[m].kind # "none"}

Min(a, b) == IF a <= b THEN a ELSE b

\* A call's record: the operation, its arguments, and its outcome
\* ("ok", "err" with an ErrorKind, or "panic"); n is RpWrite's written
\* count, RpRead's size or the content_length of RpStat; data is what the
\* returned reader produces; removed tells whether remove_dir or remove_file
\* was issued.
NoCall ==
    [op |-> "none", node |-> "d", mode |-> "none", offset |-> None, size |-> None,
     outcome |-> "none", kind |-> "none", n |-> 0, data |-> <<>>, removed |-> FALSE]

Call(o, n) == [NoCall EXCEPT !.op = o, !.node = n]

Ok(c) == [c EXCEPT !.outcome = "ok"]

\* parse_io_error: io::ErrorKind -> ErrorKind.
parse_io_error(e) ==
    CASE e = "NotFound" -> "ObjectNotFound"
      [] e = "PermissionDenied" -> "ObjectPermissionDenied"
      [] OTHER -> "Unexpected"

Err(c, e) == [c EXCEPT !.outcome = "err", !.kind = parse_io_error(e)]

\* ---- hdrs::Client -------------------------------------------------------
\* client.metadata(p)
ClientMetadata(f, n) ==
    IF KindOf(f, n) = "none"
    THEN [err |-> "NotFound", is_dir |-> FALSE, len |-> 0]
    ELSE [err |-> "none", is_dir |-> KindOf(f, n) = "dir",
          len |-> IF n = Root THEN 0 ELSE Len(f[n].data)]

\* client.create_dir(p): mkdirs.  Missing ancestors are created, an existing
\* directory is success, a file on the way is an error.
RECURSIVE ClientCreateDir(_, _)
ClientCreateDir(f, n) ==
    IF n = Root
    THEN [err |-> "none", fs |-> f]
    ELSE LET up == ClientCreateDir(f, Parent(n)) IN
         IF up.err # "none" THEN [err |-> up.err, fs |-> f]
         ELSE IF f[n].kind = "file" THEN [err |-> "AlreadyExists", fs |-> f]
         ELSE [err |-> "none", fs |-> [up.fs EXCEPT ![n] = DirEntry]]

\* OpenOptions as the backend sets them.
OpenOptions == [read |-> FALSE, write |-> FALSE, create |-> FALSE,
                truncate |-> FALSE, append |-> FALSE]

\* client.open_file()...open(p) for writing.  HDFS has no in-place update:
\* an open with write and without append is FileSystem.create(overwrite),
\* which replaces the file whether or not truncate is set; only append keeps
\* the content.  The path must not be a directory.
ClientOpenWrite(f, n, o) ==
    LET up == ClientCreateDir(f, Parent(n)) IN
    IF up.err # "none" THEN [err |-> "Other", fs |-> f]
    ELSE IF f[n].kind = "dir" THEN [err |-> "Other", fs |-> f]
    ELSE IF f[n].kind = "none" /\ ~o.create THEN [err |-> "NotFound", fs |-> f]
    ELSE [err |-> "none",
          fs |-> [up.fs EXCEPT ![n] =
                    FileEntry(IF o.append /\ f[n].kind = "file" THEN f[n].data ELSE <<>>)]]

\* client.open_file().read(true).open(p): the path must be a file.
ClientOpenRead(f, n) ==
    IF KindOf(f, n) = "none" THEN "NotFound"
    ELSE IF KindOf(f, n) = "dir" THEN "Other"
    ELSE "none"

\* client.remove_file(p) / client.remove_dir(p): a non-recursive hdfsDelete.
\* It fails on a directory with children and on a path that is not there
\* (FileSystem.delete returns false, libhdfs reports EIO).
ClientRemove(f, n) ==
    IF KindOf(f, n) = "none" \/ Children(f, n) # {}
    THEN [err |-> "Other", fs |-> f]
    ELSE [err |-> "none", fs |-> [f EXCEPT ![n] = NoEntry]]

\* ---- HdfsBackend::create / blocking_create ------------------------------
\* .create(true).write(true).truncate(true)
CreateOptions == [OpenOptions EXCEPT !.create = TRUE, !.write = TRUE, !.truncate = TRUE]

\* Mutant of CreateFile: an existing file is refused (create_new).
CreateFileNew(f, n) ==
    IF f[n].kind = "file" THEN [err |-> "AlreadyExists", fs |-> f]
    ELSE LET mk == ClientCreateDir(f, Parent(n)) IN
         IF mk.err # "none" THEN [err |-> mk.err, fs |-> f]
         ELSE ClientOpenWrite(mk.fs, n, CreateOptions)

\* A create that opens the file for append and so keeps what it holds.
CreateFileKeeps(f, n) ==
    LET mk == ClientCreateDir(f, Parent(n)) IN
    IF mk.err # "none" THEN [err |-> mk.err, fs |-> f]
    ELSE LET o == ClientOpenWrite(mk.fs, n, [CreateOptions EXCEPT !.append = TRUE]) IN
         [err |-> o.err, fs |-> o.fs]

\* ObjectMode::FILE: create the parent directory, then open with truncate.
CreateFile(f, n) ==
    LET mk == ClientCreateDir(f, Parent(n)) IN
    IF mk.err # "none" THEN [err |-> mk.err, fs |-> f]
    ELSE LET o == ClientOpenWrite(mk.fs, n, CreateOptions) IN
         [err |-> o.err, fs |-> o.fs]

DoCreate(f, n, mode) ==
    LET c == [Call("create", n) EXCEPT !.mode = mode]
        r == IF mode = "FILE" THEN CreateFile(f, n) ELSE ClientCreateDir(f, n)
    IN  [fs |-> r.fs, out |-> IF r.err = "none" THEN Ok(c) ELSE Err(c, r.err)]

\* ---- HdfsBackend::read / blocking_read ----------------------------------
\* Mutant of ReadRange: the end of a specific range is its size.
ReadRangeFromZero(offset, size, len) ==
    CASE offset # None /\ size # None -> [start |-> offset, end |-> Min(size, len)]
      [] offset # None /\ size = None -> [start |-> offset, end |-> len]
      [] offset = None /\ size # None -> [start |-> len - size, end |-> len]
      [] OTHER -> [start |-> 0, end |-> len]

\* let (start, end) = match (br.offset(), br.size()) { .. }.  Values are u64;
\* a negative number here stands for the wrapped value 2^64 + it.
ReadRange(offset, size, len) ==
    CASE offset # None /\ size # None -> [start |-> offset, end |-> Min(offset + size, len)]
      [] offset # None /\ size = None -> [start |-> offset, end |-> len]
      [] offset = None /\ size # None -> [start |-> len - size, end |-> len]
      [] OTHER -> [start |-> 0, end |-> len]

\* into_reader::from_fd(f, start, end) after seek(SeekFrom::Start(0)): the
\* bytes of the file from start up to end.
FdReaderBytes(data, start, end) ==
    IF 0 <= start /\ start <= end
    THEN SubSeq(data, start + 1, Min(end, Len(data)))
    ELSE <<>>

\* checks: the build has overflow checks on (a u64 underflow panics) or off
\* (it wraps).
DoRead(f, n, offset, size, checks) ==
    LET c == [Call("read", n) EXCEPT !.offset = offset, !.size = size]
        meta == ClientMetadata(f, n)
        opened == ClientOpenRead(f, n)
        r == ReadRange(offset, size, meta.len)
    IN  [fs |-> f,
         out |-> IF meta.err # "none" THEN Err(c, meta.err)
                 ELSE IF opened # "none" THEN Err(c, opened)
                 ELSE IF checks /\ (r.start < 0 \/ r.end - r.start < 0)
                 THEN [c EXCEPT !.outcome = "panic"]
                 ELSE [Ok(c) EXCEPT !.n = r.end - r.start,
                                    !.data = FdReaderBytes(f[n].data, r.start, r.end)]]

\* ---- HdfsBackend::write / blocking_write --------------------------------
\* .create(true).write(true)
WriteOptions == [OpenOptions EXCEPT !.create = TRUE, !.write = TRUE]

\* Mutant of WriteOpen: the file is opened for append.
WriteOpenAppend(f, n) ==
    ClientOpenWrite(f, n, [OpenOptions EXCEPT !.create = TRUE, !.append = TRUE])

WriteOpen(f, n) == ClientOpenWrite(f, n, WriteOptions)

\* Create the parent, open, then io::copy(r, &mut f): n is the count copied.
DoWrite(f, n, bytes) ==
    LET c == Call("write", n)
        mk == ClientCreateDir(f, Parent(n))
        o == WriteOpen(mk.fs, n)
    IN  IF mk.err # "none" THEN [fs |-> f, out |-> Err(c, mk.err)]
        ELSE IF o.err # "none" THEN [fs |-> mk.fs, out |-> Err(c, o.err)]
        ELSE [fs |-> [o.fs EXCEPT ![n].data = @ \o bytes],
              out |-> [Ok(c) EXCEPT !.n = Len(bytes)]]

\* ---- HdfsBackend::stat / blocking_stat ----------------------------------
DoStat(f, n) ==
    LET c == Call("stat", n)
        meta == ClientMetadata(f, n)
    IN  [fs |-> f,
         out |-> IF meta.err # "none" THEN Err(c, meta.err)
                 ELSE [Ok(c) EXCEPT !.mode = IF meta.is_dir THEN "DIR" ELSE "FILE",
                                    !.n = meta.len]]

\* ---- HdfsBackend::delete / blocking_delete ------------------------------
\* Mutant of DeleteMissing: a missing path is reported as an error.
DeleteMissingFails(c, e) == Err(c, e)

\* if let Err(err) = meta: NotFound is success, any other error is returned.
DeleteMissing(c, e) == IF e = "NotFound" THEN Ok(c) ELSE Err(c, e)

DoDelete(f, n) ==
    LET c == Call("delete", n)
        meta == ClientMetadata(f, n)
        rm == ClientRemove(f, n)
    IN  IF meta.err # "none" THEN [fs |-> f, out |-> DeleteMissing(c, meta.err)]
        ELSE [fs |-> rm.fs,
              out |-> [(IF rm.err = "none" THEN Ok(c) ELSE Err(c, rm.err))
                         EXCEPT !.removed = TRUE]]

\* ---- history of the round trip ------------------------------------------
\* The operation a blocking variant mirrors.
Base(o) ==
    CASE o = "blocking_create" -> "create"
      [] o = "blocking_read" -> "read"
      [] o = "blocking_write" -> "write"
      [] o = "blocking_stat" -> "stat"
      [] o = "blocking_delete" -> "delete"
      [] OTHER -> o

NoChain == [stage |-> 0, node |-> "d", bytes |-> <<>>, over |-> 0]

\* Stage 1 is entered by a successful write(node, bytes), over an object of
\* `over` bytes; the calls read (whole object), stat, delete, stat on the
\* same node, in this order and with nothing between them, lead to stages 2
\* to 5; any other call ends the chain.
ChainStep(r, out, bytes, over) ==
    LET o == Base(out.op)
        same == out.node = r.node
    IN  CASE o = "write" /\ out.outcome = "ok" ->
                 [stage |-> 1, node |-> out.node, bytes |-> bytes, over |-> over]
          [] r.stage = 1 /\ same /\ o = "read" /\ out.offset = None /\ out.size = None ->
                 [r EXCEPT !.stage = 2]
          [] r.stage = 2 /\ same /\ o = "stat" -> [r EXCEPT !.stage = 3]
          [] r.stage = 3 /\ same /\ o = "delete" -> [r EXCEPT !.stage = 4]
          [] r.stage = 4 /\ same /\ o = "stat" -> [r EXCEPT !.stage = 5]
          [] OTHER -> NoChain

\* Call c repeats call b, which succeeded.
Repeats(b, c) ==
    /\ b.outcome = "ok"
    /\ Base(b.op) = Base(c.op)
    /\ b.node = c.node
    /\ b.mode = c.mode

\* ---- the backend's operations as steps ----------------------------------
\* build(): the root directory exists, nothing else does.
InitHdfs ==
    /\ fs = [n \in Nodes |-> NoEntry]
    /\ last = NoCall
    /\ again = FALSE
    /\ rt = NoChain
    /\ full = FALSE

Commit(r, o, bytes) ==
    LET out == [r.out EXCEPT !.op = o] IN
    /\ fs' = r.fs
    /\ last' = out
    /\ again' = Repeats(last, out)
    /\ rt' = ChainStep(rt, out, bytes, Len(fs[out.node].data))
    /\ full' = (fs[out.node].kind = "file" /\ fs[out.node].data # <<>>)

\* The builds that differ on a read: with and without overflow checks when
\* the range arithmetic leaves u64, any one build otherwise.
Builds(n, offset, size) ==
    LET r == ReadRange(offset, size, ClientMetadata(fs, n).len) IN
    IF r.start < 0 \/ r.end < r.start THEN BOOLEAN ELSE {TRUE}

HdfsCreate ==
    \E n \in Nodes, mode \in {"FILE", "DIR"} :
        /\ Commit(DoCreate(fs, n, mode), "create", <<>>)
        /\ UNCHANGED notHdfsVars

HdfsBlockingCreate ==
    \E n \in Nodes, mode \in {"FILE", "DIR"} :
        /\ Commit(DoCreate(fs, n, mode), "blocking_create", <<>>)
        /\ UNCHANGED notHdfsVars

HdfsRead ==
    \E n \in Nodes, offset \in OptVals, size \in OptVals :
      \E checks \in Builds(n, offset, size) :
        /\ Commit(DoRead(fs, n, offset, size, checks), "read", <<>>)
        /\ UNCHANGED notHdfsVars

HdfsBlockingRead ==
    \E n \in Nodes, offset \in OptVals, size \in OptVals :
      \E checks \in Builds(n, offset, size) :
        /\ Commit(DoRead(fs, n, offset, size, checks), "blocking_read", <<>>)
        /\ UNCHANGED notHdfsVars

HdfsWrite ==
    \E n \in Nodes, bytes \in Contents :
        /\ Commit(DoWrite(fs, n, bytes), "write", bytes)
        /\ UNCHANGED notHdfsVars

HdfsBlockingWrite ==
    \E n \in Nodes, bytes \in Contents :
        /\ Commit(DoWrite(fs, n, bytes), "blocking_write", bytes)
        /\ UNCHANGED notHdfsVars

HdfsStat ==
    \E n \in Nodes :
        /\ Commit(DoStat(fs, n), "stat", <<>>)
        /\ UNCHANGED notHdfsVars

HdfsBlockingStat ==
    \E n \in Nodes :
        /\ Commit(DoStat(fs, n), "blocking_stat", <<>>)
        /\ UNCHANGED notHdfsVars

HdfsDelete ==
    \E n \in Nodes :
        /\ Commit(DoDelete(fs, n), "delete", <<>>)
        /\ UNCHANGED notHdfsVars

HdfsBlockingDelete ==
    \E n \in Nodes :
        /\ Commit(DoDelete(fs, n), "blocking_delete", <<>>)
        /\ UNCHANGED notHdfsVars

NextHdfs ==
    \/ HdfsCreate
    \/ HdfsBlockingCreate
    \/ HdfsRead
    \/ HdfsBlockingRead
    \/ HdfsWrite
    \/ HdfsBlockingWrite
    \/ HdfsStat
    \/ HdfsBlockingStat
    \/ HdfsDelete
    \/ HdfsBlockingDelete

(***************************************************************************)
(* Part III: Error (src/src/error.rs) and the backends' conversions of     *)
(* their native errors into it.                                            *)
(*                                                                         *)
(*   err       the Error value at hand: [kind, message, status, operation, *)
(*             context, source]; context is the Vec of (key, value) pairs, *)
(*             source the Option<anyhow::Error> (<<>> is None, <<s>> is    *)
(*             Some of an error that displays as s)                        *)
(*   call      the latest call that made or took err, with its input       *)
(*   build     "debug": debug assertions are compiled in; "release": they  *)
(*             are compiled out                                            *)
(*   assigned  history: the operation names given to err so far            *)
(*   rendered  what the latest format!("{}", err) produced ("" before)     *)
(*                                                                         *)
(* Response bodies are modelled without I/O faults: body.bytes() yields    *)
(* the body.                                                               *)
(***************************************************************************)
\* Longest context list an error is given.
MaxContext == 2

ErrorKinds ==
    {"Unexpected", "Unsupported", "BackendConfigInvalid", "ObjectNotFound",
     "ObjectPermissionDenied", "ObjectIsADirectory", "ObjectNotADirectory",
     "ObjectAlreadyExists", "ObjectRateLimited"}

ErrorStatuses == {"Permanent", "Temporary", "Persistent"}

Profiles == {"debug", "release"}

\* Inputs of the calls on an Error.
NewKinds == {"Unexpected", "Unsupported", "ObjectNotFound"}
Messages == {"", "boom"}
Operations == {"Read", "Write"}
ContextPairs == {<<"path", "/p">>}
Sources == {"net", "io"}

\* impl From<ErrorKind> for &'static str.
into_static(kind) ==
    CASE kind = "Unexpected" -> "Unexpected"
      [] kind = "Unsupported" -> "Unsupported"
      [] kind = "BackendConfigInvalid" -> "BackendConfigInvalid"
      [] kind = "ObjectNotFound" -> "ObjectNotFound"
      [] kind = "ObjectPermissionDenied" -> "ObjectPermissionDenied"
      [] kind = "ObjectIsADirectory" -> "ObjectIsADirectory"
      [] kind = "ObjectNotADirectory" -> "ObjectNotADirectory"
      [] kind = "ObjectAlreadyExists" -> "ObjectAlreadyExists"
      [] kind = "ObjectRateLimited" -> "ObjectRateLimited"

\* impl Display for ErrorStatus.
StatusDisplay(status) ==
    CASE status = "Permanent" -> "permanent"
      [] status = "Temporary" -> "temporary"
      [] status = "Persistent" -> "persistent"

\* ---- Error's constructor and methods ------------------------------------
ErrorNew(kind, message) ==
    [kind |-> kind,
     message |-> message,
     status |-> "Permanent",
     operation |-> "",
     context |-> <<>>,
     source |-> <<>>]

\* A with_operation that forgets the operation it replaces.
WithOperationForgets(e, operation) == [e EXCEPT !.operation = operation]

WithOperation(e, operation) ==
    LET pushed == IF e.operation # ""
                  THEN Append(e.context, <<"called", e.operation>>)
                  ELSE e.context
    IN  [e EXCEPT !.context = pushed, !.operation = operation]

\* A with_context that puts the new pair in front.
WithContextInFront(e, key, value) ==
    [e EXCEPT !.context = <<<<key, value>>>> \o @]

WithContext(e, key, value) == [e EXCEPT !.context = Append(@, <<key, value>>)]

\* An assertion that is checked in no build.
SourceAssertionOff(e, profile) == TRUE

\* debug_assert!(self.source.is_none()): checked only where debug
\* assertions are compiled in.
SourceAssertion(e, profile) == profile = "debug" => e.source = <<>>

SetSource(e, src) == [e EXCEPT !.source = <<src>>]

SetPermanent(e) == [e EXCEPT !.status = "Permanent"]

\* A set_temporary that leaves a Permanent or Persistent error as it is.
SetTemporaryUnlessTerminal(e) ==
    IF e.status \in {"Permanent", "Persistent"} THEN e
    ELSE [e EXCEPT !.status = "Temporary"]

SetTemporary(e) == [e EXCEPT !.status = "Temporary"]

SetPersistent(e) == [e EXCEPT !.status = "Persistent"]

\* The closures given to map.
MapClosures == {"identity", "set_temporary", "set_persistent"}

\* map(f) is f(self).
ErrorMap(e, f) ==
    CASE f = "identity" -> e
      [] f = "set_temporary" -> SetTemporary(e)
      [] f = "set_persistent" -> SetPersistent(e)

\* ---- impl Display for Error ---------------------------------------------
\* .map(|(k, v)| format!("{k}: {v}")).collect::<Vec<_>>().join(", ")
RECURSIVE JoinContext(_)
JoinContext(context) ==
    IF context = <<>> THEN ""
    ELSE LET pair == context[1][1] \o ": " \o context[1][2] IN
         IF Len(context) = 1 THEN pair
         ELSE pair \o ", " \o JoinContext(Tail(context))

\* A Display that writes the message before the context, as Debug does.
DisplayMessageFirst(e) ==
    into_static(e.kind) \o " (" \o StatusDisplay(e.status) \o ") at " \o e.operation
    \o (IF e.message # "" THEN " => " \o e.message ELSE "")
    \o (IF e.context # <<>> THEN ", context: { " \o JoinContext(e.context) \o " }" ELSE "")
    \o (IF e.source # <<>> THEN ", source: " \o e.source[1] ELSE "")

Display(e) ==
    into_static(e.kind) \o " (" \o StatusDisplay(e.status) \o ") at " \o e.operation
    \o (IF e.context # <<>> THEN ", context: { " \o JoinContext(e.context) \o " }" ELSE "")
    \o (IF e.message # "" THEN " => " \o e.message ELSE "")
    \o (IF e.source # <<>> THEN ", source: " \o e.source[1] ELSE "")

\* ---- conversions of native errors ---------------------------------------
\* http::StatusCode of the responses given to parse_error.
StatusCodes == {204, 400, 403, 404, 409, 429, 500, 502, 503, 504}

\* A response body: its text, the IpfsError serde_json reads from it
\* (<<>>: not JSON; <<m>>: an object whose Message is m) and the AzblobError
\* quick_xml reads from it (<<>>: not such XML; <<c>>: its Code is c).
Bodies ==
    {[text |-> "", ipfs |-> <<>>, xml |-> <<>>],
     [text |-> "boom", ipfs |-> <<>>, xml |-> <<>>],
     [text |-> "{json}", ipfs |-> <<"file does not exist">>, xml |-> <<>>],
     [text |-> "{json}", ipfs |-> <<"no link named">>, xml |-> <<>>],
     [text |-> "<xml>", ipfs |-> <<>>, xml |-> <<"BlobNotFound">>]}

\* The x-ms-error-code header of a response (<<>>: absent).
ErrorCodeHeaders == {<<>>, <<"BlobNotFound">>}

\* format!("{parts:?}"): the Debug text of the response's head.
PartsDebug(code) == "Parts"

\* format!("{azblob_err:?}") of an AzblobError with only its code set.
AzblobErrorDebug(code) == "AzblobError { code: " \o code \o " }"

\* format!("{ipfs_error:?}").
IpfsErrorDebug(message) == "IpfsError { message: " \o message \o " }"

\* The tail every conversion shares: Error::new(kind, message), the
\* response context, and set_temporary when the error is retryable.
\* This one marks every error temporary.
FinishAlwaysTemporary(kind, retryable, message, code) ==
    SetTemporary(WithContext(ErrorNew(kind, message), "response", PartsDebug(code)))

Finish(kind, retryable, message, code) ==
    LET e == WithContext(ErrorNew(kind, message), "response", PartsDebug(code)) IN
    IF retryable THEN SetTemporary(e) ELSE e

\* services/azblob/error.rs: (kind, retryable) of a status.
AzblobClassify(code) ==
    CASE code = 404 -> <<"ObjectNotFound", FALSE>>
      [] code = 403 -> <<"ObjectPermissionDenied", FALSE>>
      [] code \in {500, 502, 503, 504} -> <<"Unexpected", TRUE>>
      [] OTHER -> <<"Unexpected", FALSE>>

AzblobMessage(body, header) ==
    LET message == IF body.xml # <<>> THEN AzblobErrorDebug(body.xml[1])
                   ELSE body.text
    IN  IF message = "" /\ header # <<>> THEN AzblobErrorDebug(header[1])
        ELSE message

AzblobParseError(code, body, header) ==
    LET c == AzblobClassify(code) IN
    Finish(c[1], c[2], AzblobMessage(body, header), code)

\* A ghac table that retries nothing above 500.
GhacClassifyNoGateway(code) ==
    CASE code \in {404, 204} -> <<"ObjectNotFound", FALSE>>
      [] code = 409 -> <<"ObjectAlreadyExists", FALSE>>
      [] code = 403 -> <<"ObjectPermissionDenied", FALSE>>
      [] code = 429 -> <<"ObjectRateLimited", TRUE>>
      [] code = 500 -> <<"Unexpected", TRUE>>
      [] OTHER -> <<"Unexpected", FALSE>>

\* services/ghac/error.rs: (kind, retryable) of a status.
GhacClassify(code) ==
    CASE code \in {404, 204} -> <<"ObjectNotFound", FALSE>>
      [] code = 409 -> <<"ObjectAlreadyExists", FALSE>>
      [] code = 403 -> <<"ObjectPermissionDenied", FALSE>>
      [] code = 429 -> <<"ObjectRateLimited", TRUE>>
      [] code \in {500, 502, 503, 504} -> <<"Unexpected", TRUE>>
      [] OTHER -> <<"Unexpected", FALSE>>

GhacParseError(code, body) ==
    LET c == GhacClassify(code) IN
    Finish(c[1], c[2], body.text, code)

\* services/ipmfs/error.rs: (kind, retryable) of a status and the IpfsError
\* read from the body.
IpmfsClassify(code, ipfs_error) ==
    CASE code = 500 ->
             IF ipfs_error # <<>> /\ ipfs_error[1] = "file does not exist"
             THEN <<"ObjectNotFound", FALSE>>
             ELSE <<"Unexpected", FALSE>>
      [] code \in {502, 503, 504} -> <<"Unexpected", TRUE>>
      [] OTHER -> <<"Unexpected", FALSE>>

IpmfsMessage(body) ==
    IF body.ipfs # <<>> THEN IpfsErrorDebug(body.ipfs[1]) ELSE body.text

IpmfsParseError(code, body) ==
    LET c == IpmfsClassify(code, body.ipfs) IN
    Finish(c[1], c[2], IpmfsMessage(body), code)

\* suppaftp::FtpError values: an unexpected response with its status, a bad
\* response, a connection error.
FtpErrors ==
    {[variant |-> "UnexpectedResponse", status |-> "NotAvailable"],
     [variant |-> "UnexpectedResponse", status |-> "FileUnavailable"],
     [variant |-> "UnexpectedResponse", status |-> "BadCommand"],
     [variant |-> "BadResponse", status |-> "none"],
     [variant |-> "ConnectionError", status |-> "none"]}

\* services/ftp/err.rs: (kind, retryable) of an FtpError.
FtpClassify(e) ==
    CASE e.variant = "UnexpectedResponse" /\ e.status = "NotAvailable" ->
             <<"Unexpected", TRUE>>
      [] e.variant = "UnexpectedResponse" /\ e.status = "FileUnavailable" ->
             <<"ObjectNotFound", FALSE>>
      [] e.variant = "BadResponse" -> <<"Unexpected", TRUE>>
      [] OTHER -> <<"Unexpected", FALSE>>

\* impl From<FtpError> for Error.
FromFtpError(e) ==
    LET c == FtpClassify(e)
        made == SetSource(ErrorNew(c[1], "ftp error"), e.variant)
    IN  IF c[2] THEN SetTemporary(made) ELSE made

\* ---- calls as steps ------------------------------------------------------
\* A call and its input: arg is the operation or source it was given;
\* backend, code, ipfs and retryable describe a conversion's native error.
Invoke(name) ==
    [name |-> name,
     arg |-> "",
     panicked |-> FALSE,
     backend |-> "none",
     code |-> 0,
     ipfs |-> <<>>,
     retryable |-> FALSE]

Converted(backend, code, ipfs, retryable) ==
    [Invoke("parse_error") EXCEPT
        !.backend = backend, !.code = code, !.ipfs = ipfs, !.retryable = retryable]

InitError ==
    /\ err = ErrorNew("Unexpected", "")
    /\ call = Invoke("new")
    /\ build \in Profiles
    /\ assigned = {}
    /\ rendered = ""

\* A fresh error replaces the one at hand.
Made(e, c) ==
    /\ err' = e
    /\ call' = c
    /\ assigned' = {}
    /\ rendered' = ""

\* A method consumed err and returned e.
Returned(e, c) ==
    /\ ~call.panicked
    /\ Len(e.context) <= MaxContext
    /\ err' = e
    /\ call' = c
    /\ rendered' = ""

ErrNew ==
    \E kind \in NewKinds, message \in Messages :
        /\ Made(ErrorNew(kind, message), Invoke("new"))
        /\ UNCHANGED <<build, notErrorVars>>

ErrWithOperation ==
    \E operation \in Operations :
        /\ Returned(WithOperation(err, operation),
                    [Invoke("with_operation") EXCEPT !.arg = operation])
        /\ assigned' = assigned \cup {operation}
        /\ UNCHANGED <<build, notErrorVars>>

ErrWithContext ==
    \E pair \in ContextPairs :
        /\ Returned(WithContext(err, pair[1], pair[2]), Invoke("with_context"))
        /\ UNCHANGED <<build, assigned, notErrorVars>>

\* set_source: a failed debug assertion unwinds and the error is dropped
\* as it was.
ErrSetSource ==
    \E src \in Sources :
        /\ IF SourceAssertion(err, build)
           THEN Returned(SetSource(err, src),
                         [Invoke("set_source") EXCEPT !.arg = src])
           ELSE Returned(err, [Invoke("set_source") EXCEPT
                                  !.arg = src, !.panicked = TRUE])
        /\ UNCHANGED <<build, assigned, notErrorVars>>

ErrMap ==
    \E f \in MapClosures :
        /\ Returned(ErrorMap(err, f), [Invoke("map") EXCEPT !.arg = f])
        /\ UNCHANGED <<build, assigned, notErrorVars>>

ErrSetPermanent ==
    /\ Returned(SetPermanent(err), Invoke("set_permanent"))
    /\ UNCHANGED <<build, assigned, notErrorVars>>

ErrSetTemporary ==
    /\ Returned(SetTemporary(err), Invoke("set_temporary"))
    /\ UNCHANGED <<build, assigned, notErrorVars>>

ErrSetPersistent ==
    /\ Returned(SetPersistent(err), Invoke("set_persistent"))
    /\ UNCHANGED <<build, assigned, notErrorVars>>

\* format!("{}", err) borrows the error.
ErrDisplay ==
    /\ ~call.panicked
    /\ rendered' = Display(err)
    /\ call' = Invoke("fmt")
    /\ UNCHANGED <<err, build, assigned, notErrorVars>>

\* A conversion makes its error from the native error alone, whatever error
\* was at hand: it is taken right after an Error::new.
AfterNew == call.name = "new"

AzblobError ==
    \E code \in StatusCodes, body \in Bodies, header \in ErrorCodeHeaders :
        /\ AfterNew
        /\ Made(AzblobParseError(code, body, header),
                Converted("azblob", code, body.ipfs, AzblobClassify(code)[2]))
        /\ UNCHANGED <<build, notErrorVars>>

GhacError ==
    \E code \in StatusCodes, body \in Bodies :
        /\ AfterNew
        /\ Made(GhacParseError(code, body),
                Converted("ghac", code, body.ipfs, GhacClassify(code)[2]))
        /\ UNCHANGED <<build, notErrorVars>>

IpmfsError ==
    \E code \in StatusCodes, body \in Bodies :
        /\ AfterNew
        /\ Made(IpmfsParseError(code, body),
                Converted("ipmfs", code, body.ipfs,
                          IpmfsClassify(code, body.ipfs)[2]))
        /\ UNCHANGED <<build, notErrorVars>>

FtpError ==
    \E e \in FtpErrors :
        /\ AfterNew
        /\ Made(FromFtpError(e),
                [Invoke("from") EXCEPT !.backend = "ftp",
                                       !.retryable = FtpClassify(e)[2]])
        /\ UNCHANGED <<build, notErrorVars>>

NextError ==
    \/ ErrNew
    \/ ErrWithOperation
    \/ ErrWithContext
    \/ ErrSetSource
    \/ ErrMap
    \/ ErrSetPermanent
    \/ ErrSetTemporary
    \/ ErrSetPersistent
    \/ ErrDisplay
    \/ AzblobError
    \/ GhacError
    \/ IpmfsError
    \/ FtpError

(***************************************************************************)
(* Part IV: Builder::from_env (src/src/builder.rs).                        *)
(*                                                                         *)
(* Strings whose letters matter are sequences of one-character strings.    *)
(*   environ  the process environment in its own order: a sequence of      *)
(*            <<name, value>> with distinct names, given at start          *)
(*   built    the latest from_env: done (from_map was called), panicked    *)
(*            (env::vars() panicked) and map, the HashMap given to from_map *)
(***************************************************************************)
\* Most variables in the environment.
MaxEnv == 2

UpperCase == <<"A", "B", "C", "D", "E", "F", "G", "H", "I", "J", "K", "L", "M", "N", "O", "P", "Q", "R", "S", "T", "U", "V", "W", "X", "Y", "Z">>
LowerCase == <<"a", "b", "c", "d", "e", "f", "g", "h", "i", "j", "k", "l", "m", "n", "o", "p", "q", "r", "s", "t", "u", "v", "w", "x", "y", "z">>

\* char::to_lowercase on ASCII.
ToLower(c) ==
    IF \E i \in 1 .. Len(UpperCase) : UpperCase[i] = c
    THEN LowerCase[CHOOSE i \in 1 .. Len(UpperCase) : UpperCase[i] = c]
    ELSE c

\* str::to_lowercase.
ToLowercase(s) == [i \in 1 .. Len(s) |-> ToLower(s[i])]

\* str::strip_prefix: <<>> is None, <<rest>> is Some(rest).
StripPrefix(s, prefix) ==
    IF Len(prefix) <= Len(s) /\ SubSeq(s, 1, Len(prefix)) = prefix
    THEN <<SubSeq(s, Len(prefix) + 1, Len(s))>>
    ELSE <<>>

\* Self::SCHEME of the builder at hand, and what Display writes for it.
SCHEME == "S3"
SchemeDisplay(scheme) == IF scheme = "S3" THEN <<"s", "3">> ELSE <<"f", "s">>

\* format!("opendal_{}_", Self::SCHEME)
EnvPrefix == <<"o", "p", "e", "n", "d", "a", "l", "_">> \o SchemeDisplay(SCHEME) \o <<"_">>

\* Names and values a variable of the environment may have.  NotUnicode is
\* a value that is not valid Unicode.
EnvNames ==
    {<<"O", "P", "E", "N", "D", "A", "L", "_", "S", "3", "_", "B", "U", "C", "K", "E", "T">>,
     <<"o", "p", "e", "n", "d", "a", "l", "_", "s", "3", "_", "b", "u", "c", "k", "e", "t">>,
     <<"O", "p", "e", "n", "D", "a", "l", "_", "S", "3", "_", "R", "e", "g", "i", "o", "n">>,
     <<"O", "P", "E", "N", "D", "A", "L", "_", "S", "3", "_">>,
     <<"O", "P", "E", "N", "D", "A", "L", "_", "S", "3">>,
     <<"O", "P", "E", "N", "D", "A", "L", "_", "F", "S", "_", "R", "O", "O", "T">>,
     <<"X", "O", "P", "E", "N", "D", "A", "L", "_", "S", "3", "_", "K", "E", "Y">>,
     <<"H", "O", "M", "E">>}
NotUnicode == <<"\\xff">>
EnvValues == {<<"x">>, <<"Y">>, NotUnicode}

\* env::vars(): the variables in the environment's order; it panics at a
\* variable that is not valid Unicode.
VarsPanics(env) == \E i \in 1 .. Len(env) : env[i][2] = NotUnicode

\* A filter_map that lowers the value with the name.
FilterMapLowersValue(pair) ==
    LET stripped == StripPrefix(ToLowercase(pair[1]), EnvPrefix) IN
    IF stripped = <<>> THEN <<>> ELSE <<<<stripped[1], ToLowercase(pair[2])>>>>

\* .filter_map(|(k, v)| k.to_lowercase().strip_prefix(&prefix)
\*                        .map(|k| (k.to_string(), v)))
FilterMap(pair) ==
    LET stripped == StripPrefix(ToLowercase(pair[1]), EnvPrefix) IN
    IF stripped = <<>> THEN <<>> ELSE <<<<stripped[1], pair[2]>>>>

\* HashMap::insert.
Insert(map, key, value) ==
    [k \in DOMAIN map \cup {key} |-> IF k = key THEN value ELSE map[k]]

\* .collect() into a HashMap: the pairs are inserted in the iterator's order.
RECURSIVE Collect(_, _)
Collect(env, map) ==
    IF env = <<>> THEN map
    ELSE LET item == FilterMap(Head(env)) IN
         Collect(Tail(env),
                 IF item = <<>> THEN map ELSE Insert(map, item[1][1], item[1][2]))

NoMap == [k \in {} |-> <<>>]

NotBuilt == [done |-> FALSE, panicked |-> FALSE, map |-> NoMap]

\* The environments a process may start with.
Environments ==
    {env \in UNION {[1 .. n -> EnvNames \X EnvValues] : n \in 0 .. MaxEnv} :
        \A i, j \in 1 .. Len(env) : env[i][1] = env[j][1] => i = j}

InitBuilder ==
    /\ environ \in Environments
    /\ built = NotBuilt

FromEnv ==
    /\ built = NotBuilt
    /\ built' = IF VarsPanics(environ)
                THEN [NotBuilt EXCEPT !.panicked = TRUE]
                ELSE [done |-> TRUE, panicked |-> FALSE,
                      map |-> Collect(environ, NoMap)]
    /\ UNCHANGED <<environ, notBuilderVars>>

NextBuilder == FromEnv

(***************************************************************************)
(* Part V: HdfsBuilder and RocksdbBuilder                                  *)
(* (src/src/services/hdfs/backend.rs, src/src/services/rocksdb/backend.rs).*)
(*   hdfsBuilder     the fields of an HdfsBuilder                          *)
(*   rocksdbBuilder  the fields of a RocksdbBuilder                        *)
(*   config          history: the last call on a builder, the map it was   *)
(*                   given, what build returned, and whether build called  *)
(*                   hdrs::Client::connect or TransactionDB::open_default  *)
(* An Option is <<>> (None) or <<v>> (Some(v)).                            *)
(***************************************************************************)
\* Values handed to the setters and found in configuration maps.
RootValues == {"", "/r"}
NameNodeValues == {"", "default", "hdfs://nn/"}
DatadirValues == {"", "/d"}

ConfigKeys == {"root", "name_node", "datadir"}

ValuesOf(key) ==
    CASE key = "root" -> RootValues
      [] key = "name_node" -> NameNodeValues
      [] key = "datadir" -> DatadirValues

\* HashMap<String, String>: every map over some of the keys.
ConfigMaps ==
    UNION {{m \in [K -> RootValues \cup NameNodeValues \cup DatadirValues] :
                \A k \in K : m[k] \in ValuesOf(k)} : K \in SUBSET ConfigKeys}

\* map.get(key): an Option.
MapGet(map, key) == IF key \in DOMAIN map THEN <<map[key]>> ELSE <<>>

\* Scheme as the String that with_context stores.
SchemeName(scheme) ==
    CASE scheme = "Hdfs" -> "hdfs"
      [] scheme = "Rocksdb" -> "rocksdb"

\* str::trim_end_matches('/') on the name nodes of the model.
TrimEndMatchesSlash(s) == IF s = "hdfs://nn/" THEN "hdfs://nn" ELSE s

\* ---- HdfsBuilder ---------------------------------------------------------
HdfsBuilderDefault == [root |-> <<>>, name_node |-> <<>>]

HdfsRoot(b, root) ==
    [b EXCEPT !.root = IF root = "" THEN <<>> ELSE <<root>>]

HdfsNameNode(b, name_node) ==
    IF name_node # ""
    THEN [b EXCEPT !.name_node = <<TrimEndMatchesSlash(name_node)>>]
    ELSE b

HdfsFromMap(map) ==
    LET b0 == HdfsBuilderDefault
        b1 == IF MapGet(map, "root") # <<>> THEN HdfsRoot(b0, map["root"]) ELSE b0
    IN IF MapGet(map, "name_node") # <<>>
       THEN HdfsNameNode(b1, map["name_node"])
       ELSE b1

\* What build returns: the builder it leaves, Ok or Err with the error, and
\* whether it called connect / open_default on the way.
Built(b, error, attempted) ==
    [builder |-> b,
     outcome |-> IF error = <<>> THEN "ok" ELSE "err",
     error |-> error,
     attempted |-> attempted]

\* A missing name node reported without the service context.
HdfsNameNodeEmptyBare(b) ==
    Built(b, <<ErrorNew("BackendConfigInvalid", "name node is empty")>>, FALSE)

\* The None arm of `match &self.name_node`.
HdfsNameNodeEmpty(b) ==
    Built(b,
          <<WithContext(ErrorNew("BackendConfigInvalid", "name node is empty"),
                        "service", SchemeName("Hdfs"))>>,
          FALSE)

\* What the name node answers: connect succeeds or fails with an io error
\* kind, metadata of the root succeeds or fails with one, create_dir too.
IoKinds == {"NotFound", "PermissionDenied", "Other"}
IoResults == {"Ok"} \cup IoKinds
HdfsAnswers == [connect : IoResults, metadata : IoResults, create_dir : IoResults]

\* HdfsBuilder::build.  Of an io error only the kind is kept.
HdfsBuild(b, answers) ==
    IF b.name_node = <<>> THEN HdfsNameNodeEmpty(b)
    ELSE LET taken == [b EXCEPT !.root = <<>>] IN
         IF answers.connect # "Ok"
         THEN Built(taken, <<ErrorNew(parse_io_error(answers.connect), "")>>, TRUE)
         ELSE IF answers.metadata = "NotFound" /\ answers.create_dir # "Ok"
         THEN Built(taken, <<ErrorNew(parse_io_error(answers.create_dir), "")>>, TRUE)
         ELSE Built(taken, <<>>, TRUE)

\* ---- RocksdbBuilder ------------------------------------------------------
RocksdbBuilderDefault == [datadir |-> <<>>, root |-> <<>>]

RocksdbDatadir(b, path) == [b EXCEPT !.datadir = <<path>>]

RocksdbRoot(b, root) == IF root # "" THEN [b EXCEPT !.root = <<root>>] ELSE b

RocksdbFromMap(map) ==
    IF MapGet(map, "datadir") # <<>>
    THEN RocksdbDatadir(RocksdbBuilderDefault, map["datadir"])
    ELSE RocksdbBuilderDefault

\* The rocksdb errors open_default may return.
OpenErrors == {"io", "corruption"}
OpenResults == {"Ok"} \cup OpenErrors

\* RocksdbBuilder::build.
RocksdbBuild(b, opened) ==
    LET taken == [b EXCEPT !.datadir = <<>>] IN
    IF b.datadir = <<>>
    THEN Built(taken,
               <<WithContext(ErrorNew("BackendConfigInvalid",
                                      "datadir is required but not set"),
                             "service", SchemeName("Rocksdb"))>>,
               FALSE)
    ELSE IF opened # "Ok"
    THEN Built(taken,
               <<SetSource(
                   WithContext(
                     WithContext(ErrorNew("BackendConfigInvalid",
                                          "open default transaction db"),
                                 "service", SchemeName("Rocksdb")),
                     "datadir", b.datadir[1]),
                   opened)>>,
               TRUE)
    ELSE Built(taken, <<>>, TRUE)

\* ---- calls on the builders -----------------------------------------------
\* The last call: its name, the builder it was made on, the builder before
\* the call, the map given to from_map, and what build returned.
NoConfigMap == <<>>
ConfigCall(name, service, before, map, result) ==
    [call |-> name, service |-> service, before |-> before, map |-> map,
     result |-> result]

NotMade == ConfigCall("none", "none", <<>>, NoConfigMap, <<>>)

ConfigAtRest ==
    /\ hdfsBuilder = HdfsBuilderDefault
    /\ rocksdbBuilder = RocksdbBuilderDefault
    /\ config = NotMade

InitConfig == ConfigAtRest

HdfsSetRoot ==
    \E v \in RootValues :
        /\ hdfsBuilder' = HdfsRoot(hdfsBuilder, v)
        /\ config' = ConfigCall("root", "hdfs", hdfsBuilder, NoConfigMap, <<>>)
        /\ UNCHANGED <<rocksdbBuilder, notConfigVars>>

HdfsSetNameNode ==
    \E v \in NameNodeValues :
        /\ hdfsBuilder' = HdfsNameNode(hdfsBuilder, v)
        /\ config' = ConfigCall("name_node", "hdfs", hdfsBuilder, NoConfigMap, <<>>)
        /\ UNCHANGED <<rocksdbBuilder, notConfigVars>>

HdfsConfigure ==
    \E map \in ConfigMaps :
        /\ hdfsBuilder' = HdfsFromMap(map)
        /\ config' = ConfigCall("from_map", "hdfs", hdfsBuilder, map, <<>>)
        /\ UNCHANGED <<rocksdbBuilder, notConfigVars>>

HdfsBuilds ==
    \E answers \in HdfsAnswers :
        LET result == HdfsBuild(hdfsBuilder, answers) IN
        /\ hdfsBuilder' = result.builder
        /\ config' = ConfigCall("build", "hdfs", hdfsBuilder, NoConfigMap, <<result>>)
        /\ UNCHANGED <<rocksdbBuilder, notConfigVars>>

RocksdbSetDatadir ==
    \E v \in DatadirValues :
        /\ rocksdbBuilder' = RocksdbDatadir(rocksdbBuilder, v)
        /\ config' = ConfigCall("datadir", "rocksdb", rocksdbBuilder, NoConfigMap, <<>>)
        /\ UNCHANGED <<hdfsBuilder, notConfigVars>>

RocksdbSetRoot ==
    \E v \in RootValues :
        /\ rocksdbBuilder' = RocksdbRoot(rocksdbBuilder, v)
        /\ config' = ConfigCall("root", "rocksdb", rocksdbBuilder, NoConfigMap, <<>>)
        /\ UNCHANGED <<hdfsBuilder, notConfigVars>>

RocksdbConfigure ==
    \E map \in ConfigMaps :
        /\ rocksdbBuilder' = RocksdbFromMap(map)
        /\ config' = ConfigCall("from_map", "rocksdb", rocksdbBuilder, map, <<>>)
        /\ UNCHANGED <<hdfsBuilder, notConfigVars>>

RocksdbBuilds ==
    \E opened \in OpenResults :
        LET result == RocksdbBuild(rocksdbBuilder, opened) IN
        /\ rocksdbBuilder' = result.builder
        /\ config' = ConfigCall("build", "rocksdb", rocksdbBuilder, NoConfigMap, <<result>>)
        /\ UNCHANGED <<hdfsBuilder, notConfigVars>>

NextConfig ==
    \/ HdfsSetRoot
    \/ HdfsSetNameNode
    \/ HdfsConfigure
    \/ HdfsBuilds
    \/ RocksdbSetDatadir
    \/ RocksdbSetRoot
    \/ RocksdbConfigure
    \/ RocksdbBuilds

(***************************************************************************)
(* Part VI: the azdfs DirStream pager                                      *)
(* (src/src/services/azdfs/dir_stream.rs).                                 *)
(*   listing    the pages the directory lists as; 0: the path is missing   *)
(*   stream     the DirStream's continuation and done fields               *)
(*   reply      history: what the last next_page call returned, the        *)
(*              continuation it sent and the fields before the call        *)
(*   requests   history: the continuation of every list request sent       *)
(*   delivered  history: the pages returned as Some(entries), in order     *)
(*   ended      history: a call has returned None                          *)
(* Page i of a listing is named i.  A continuation is 0 (the empty string) *)
(* or the token i the service sent with page i, which asks for page i + 1. *)
(***************************************************************************)
\* Most pages a directory lists as.
MaxPages == 2
\* Most list requests one pager sends.
MaxRequests == 4

EmptyContinuation == 0
\* resp.headers().get("x-ms-continuation"): no such header, or a value that
\* to_str rejects.
NoHeader == -1
InvalidHeader == -2
\* A call that sent no request.
NoRequest == -1
NoPage == 0

\* What may be wrong with a response body: reading it fails, it is not
\* JSON, a contentLength is not an integer, a lastModified is not RFC 2822.
BodyFaults == {"body", "json", "content_length", "last_modified"}
Bodies200 == {"fine"} \cup BodyFaults

Response(status, header, body, page) ==
    [status |-> status, header |-> header, body |-> body, page |-> page]

\* What azdfs_list may come back with for a directory of n pages and a
\* request carrying continuation c.  "transport" is an Err of azdfs_list.
ServerReplies(n, c) ==
    {Response("transport", NoHeader, "fine", NoPage),
     Response("500", NoHeader, "fine", NoPage)}
    \cup (IF n = 0
          THEN {Response("404", NoHeader, b, NoPage) : b \in {"fine", "body"}}
          ELSE {})
    \cup (IF n > 0 /\ c < n
          THEN {Response("200", h, b, c + 1) :
                    h \in {IF c + 1 < n THEN c + 1 ELSE NoHeader, InvalidHeader},
                    b \in Bodies200}
          ELSE {})

\* DirStream::new
DirStreamNew == [continuation |-> EmptyContinuation, done |-> FALSE]

\* What next_page returns, with the fields it leaves.
PageResult(s, kind, page, cause) ==
    [stream |-> s, kind |-> kind, page |-> page, cause |-> cause]

PageErr(s, cause) == PageResult(s, "err", NoPage, cause)

\* next_page once the response of azdfs_list is at hand.
NextPageOn(s, resp) ==
    CASE resp.status = "transport" -> PageErr(s, "transport")
      [] resp.status = "404" ->
            IF resp.body = "body" THEN PageErr(s, "body")
            ELSE PageResult(s, "end", NoPage, "none")
      [] resp.status = "500" -> PageErr(s, "status")
      [] resp.status = "200" ->
            IF resp.header = InvalidHeader THEN PageErr(s, "header")
            ELSE LET s1 == IF resp.header # NoHeader
                           THEN [s EXCEPT !.continuation = resp.header]
                           ELSE [continuation |-> EmptyContinuation, done |-> TRUE]
                 IN IF resp.body \in BodyFaults
                    THEN PageErr(s1, resp.body)
                    ELSE PageResult(s1, "some", resp.page, "none")

\* The last call.
PageReply(kind, page, cause, sent, before) ==
    [kind |-> kind, page |-> page, cause |-> cause, sent |-> sent,
     before |-> before]

NoReply == PageReply("none", NoPage, "none", NoRequest, DirStreamNew)

PagerAtRest ==
    /\ listing = 0
    /\ stream = DirStreamNew
    /\ reply = NoReply
    /\ requests = <<>>
    /\ delivered = <<>>
    /\ ended = FALSE

\* A pager made by list() on a path that is missing or lists as some pages.
InitPager ==
    /\ listing \in 0 .. MaxPages
    /\ stream = DirStreamNew
    /\ reply = NoReply
    /\ requests = <<>>
    /\ delivered = <<>>
    /\ ended = FALSE

\* One call of next_page, from entry to return.
NextPage ==
    /\ stream.done \/ Len(requests) < MaxRequests
    /\ IF stream.done
       THEN /\ reply' = PageReply("end", NoPage, "none", NoRequest, stream)
            /\ ended' = TRUE
            /\ UNCHANGED <<listing, stream, requests, delivered, notPagerVars>>
       ELSE /\ \E resp \in ServerReplies(listing, stream.continuation) :
                   LET r == NextPageOn(stream, resp) IN
                   /\ stream' = r.stream
                   /\ reply' = PageReply(r.kind, r.page, r.cause,
                                         stream.continuation, stream)
                   /\ requests' = Append(requests, stream.continuation)
                   /\ delivered' = IF r.kind = "some"
                                   THEN Append(delivered, r.page)
                                   ELSE delivered
                   /\ ended' = (ended \/ r.kind = "end")
            /\ UNCHANGED <<listing, notPagerVars>>

\* Another client creates the missing directory.
DirectoryCreated ==
    /\ listing = 0
    /\ listing' \in 1 .. MaxPages
    /\ UNCHANGED <<stream, reply, requests, delivered, ended, notPagerVars>>

NextPager ==
    \/ NextPage
    \/ DirectoryCreated

(***************************************************************************)
(* Part VII: as_streamable / IntoStream                                    *)
(* (src/src/raw/io/output/into_reader/as_streamable.rs).                   *)
(*   content  the bytes the wrapped reader holds                           *)
(*   cap      the capacity given to as_streamable                          *)
(*   pos      the wrapped reader's position                                *)
(*   chunks   history: the chunks poll_next has yielded, in order          *)
(*   polled   what the last poll_next returned                             *)
(***************************************************************************)
\* Longest content of a wrapped reader.
MaxBytes == 3
\* Largest capacity given to as_streamable.
MaxCap == 2

StreamBytes == {"a", "b"}
StreamContents == UNION {[1 .. k -> StreamBytes] : k \in 0 .. MaxBytes}

\* A byte of the buffer the reader did not write.
Unwritten == "?"

RECURSIVE Concat(_)
Concat(cs) == IF cs = <<>> THEN <<>> ELSE Head(cs) \o Concat(Tail(cs))

\* The buffer after poll_read wrote n bytes from position p into the cap
\* bytes of spare capacity handed to it.
ReadInto(bytes, p, n, capacity) ==
    SubSeq(bytes, p + 1, p + n) \o [i \in 1 .. (capacity - n) |-> Unwritten]

\* A chunk made of the whole buffer, written or not.
FilledWhole(buf, n) == buf

\* buf.set_filled(n); buf.filled()
Filled(buf, n) == SubSeq(buf, 1, n)

\* The counts poll_read may report for a buffer of cap bytes: 0 at the end
\* of the content, otherwise at least one byte and no more than fit.
ReadCounts(bytes, p, capacity) ==
    IF p = Len(bytes) THEN {0}
    ELSE 1 .. Min(capacity, Len(bytes) - p)

\* What poll_read may do: ask to be polled again, fail, or report a count.
ReadOutcomes(bytes, p, capacity) ==
    {[kind |-> "pending", n |-> 0], [kind |-> "err", n |-> 0]}
    \cup {[kind |-> "ready", n |-> n] : n \in ReadCounts(bytes, p, capacity)}

StreamAtRest ==
    /\ content = <<>>
    /\ cap = 1
    /\ pos = 0
    /\ chunks = <<>>
    /\ polled = "none"

\* as_streamable(r, capacity) on a reader at its start.
InitStream ==
    /\ content \in StreamContents
    /\ cap \in 1 .. MaxCap
    /\ pos = 0
    /\ chunks = <<>>
    /\ polled = "none"

\* What poll_next returns and leaves, given what poll_read did and the
\* buffer it left.
PollNextOn(p, yielded, read, buf) ==
    CASE read.kind = "pending" -> [polled |-> "pending", pos |-> p, chunks |-> yielded]
      [] read.kind = "err" -> [polled |-> "err", pos |-> p, chunks |-> yielded]
      [] read.kind = "ready" /\ read.n = 0 ->
            [polled |-> "end", pos |-> p, chunks |-> yielded]
      [] read.kind = "ready" /\ read.n > 0 ->
            [polled |-> "chunk", pos |-> p + read.n,
             chunks |-> Append(yielded, Filled(buf, read.n))]

\* IntoStream::poll_next
PollNext ==
    /\ \E read \in ReadOutcomes(content, pos, cap) :
           LET r == PollNextOn(pos, chunks, read, ReadInto(content, pos, read.n, cap)) IN
           /\ polled' = r.polled
           /\ pos' = r.pos
           /\ chunks' = r.chunks
    /\ UNCHANGED <<content, cap, notStreamVars>>

NextStream == PollNext

(***************************************************************************)
(* Part VIII: concurrent HdfsBackend::delete / blocking_delete             *)
(* (src/src/services/hdfs/backend.rs).  Each caller's delete is two calls  *)
(* on the name node, client.metadata and then client.remove_dir or         *)
(* client.remove_file; calls of different callers interleave.              *)
(*   tree     the name space, as fs in Part II                             *)
(*   began    the path the callers delete and its entry when they began    *)
(*   deleter  each caller's position, the is_dir its metadata call saw,    *)
(*            and what its delete returned                                 *)
(***************************************************************************)
\* Callers that delete the same path at once.
NumDeleters == 2

Deleters == 1 .. NumDeleters

\* Name spaces that hold a parent for every entry.
Trees ==
    {f \in [Nodes -> {NoEntry, DirEntry} \cup {FileEntry(b) : b \in Contents}] :
        \A n \in Nodes :
            (f[n].kind # "none" /\ Parent(n) # Root) => f[Parent(n)].kind = "dir"}

NotStarted == [pc |-> "start", is_dir |-> FALSE, out |-> Call("delete", "d")]

RaceAtRest ==
    /\ tree = [n \in Nodes |-> NoEntry]
    /\ began = [node |-> "d", entry |-> NoEntry, leaf |-> TRUE]
    /\ deleter = [i \in Deleters |-> NotStarted]

InitRace ==
    /\ tree \in Trees
    /\ \E n \in Nodes :
           began = [node |-> n, entry |-> tree[n], leaf |-> Children(tree, n) = {}]
    /\ deleter = [i \in Deleters |-> NotStarted]

\* let meta = self.client.metadata(&p); if let Err(err) = meta { return ... }
DeleteCheck ==
    \E i \in Deleters :
        LET c == Call("delete", began.node)
            meta == ClientMetadata(tree, began.node)
        IN  /\ deleter[i].pc = "start"
            /\ deleter' =
                 [deleter EXCEPT ![i] =
                    IF meta.err # "none"
                    THEN [pc |-> "done", is_dir |-> FALSE,
                          out |-> DeleteMissing(c, meta.err)]
                    ELSE [pc |-> "checked", is_dir |-> meta.is_dir, out |-> c]]
            /\ UNCHANGED <<tree, began, notRaceVars>>

\* remove_dir or remove_file, result.map_err(parse_io_error)?, Ok(..)
DeleteRemove ==
    \E i \in Deleters :
        LET rm == ClientRemove(tree, began.node)
            c == deleter[i].out
        IN  /\ deleter[i].pc = "checked"
            /\ tree' = rm.fs
            /\ deleter' =
                 [deleter EXCEPT ![i] =
                    [pc |-> "done", is_dir |-> deleter[i].is_dir,
                     out |-> [(IF rm.err = "none" THEN Ok(c) ELSE Err(c, rm.err))
                                EXCEPT !.removed = TRUE]]]
            /\ UNCHANGED <<began, notRaceVars>>

NextRace ==
    \/ DeleteCheck
    \/ DeleteRemove

(***************************************************************************)
(* Specifications.  Each part runs with the other part at rest.            *)
(***************************************************************************)
vars ==
    <<limitVars, hdfsVars, errorVars, builderVars, configVars, pagerVars,
      streamVars, raceVars>>

\* The state of Part I while another part runs: a layer without permits
\* and without callers.
LimitAtRest ==
    /\ permits = 0
    /\ semOf = [a \in Handles |-> LayerSemaphore]
    /\ available = [s \in SemIds |-> 0]
    /\ waiters = [s \in SemIds |-> <<>>]
    /\ pc = [c \in Callers |-> "idle"]
    /\ op = [c \in Callers |-> "none"]
    /\ held = [c \in Callers |-> NoSem]
    /\ exhausted = [c \in Callers |-> FALSE]
    /\ order = <<>>

\* The state of Part III while another part runs: one error, no call.
ErrorAtRest ==
    /\ err = ErrorNew("Unexpected", "")
    /\ call = Invoke("new")
    /\ build = "debug"
    /\ assigned = {}
    /\ rendered = ""

\* The state of Part IV while another part runs: an empty environment.
BuilderAtRest ==
    /\ environ = <<>>
    /\ built = NotBuilt

Init ==
    /\ InitLimit
    /\ InitHdfs
    /\ ErrorAtRest
    /\ BuilderAtRest
    /\ ConfigAtRest
    /\ PagerAtRest
    /\ StreamAtRest
    /\ RaceAtRest

Next == NextLimit

\* The concurrent limit layer under arbitrary interleavings of its callers.
Spec == Init /\ [][Next]_vars

\* The steps of Next that concern caller c: its inner call returns, its
\* woken future is polled, its reader or pager is dropped.
ReturnsOf(c) == InnerReturn /\ pc[c] = "inner" /\ pc'[c] # "inner"
ResumeOf(c) == Resume /\ pc[c] = "granted" /\ pc'[c] = "inner"
DropOf(c) == Drop /\ pc[c] = "stream" /\ pc'[c] = "idle"

\* What the runtime and the callers see to: a woken task is polled again
\* (tokio schedules every woken task), an inner call returns, a reader or
\* pager is dropped.
Progress ==
    \A c \in Callers :
        /\ WF_vars(ResumeOf(c))
        /\ WF_vars(ReturnsOf(c))
        /\ WF_vars(DropOf(c))

\* The concurrent limit layer with inner calls that return and readers and
\* pagers that are dropped.
SpecLive == Init /\ [][Next]_vars /\ Progress

InitSpecHdfs ==
    /\ LimitAtRest
    /\ InitHdfs
    /\ ErrorAtRest
    /\ BuilderAtRest
    /\ ConfigAtRest
    /\ PagerAtRest
    /\ StreamAtRest
    /\ RaceAtRest

\* The HDFS backend driven by one caller, one call at a time.
SpecHdfs == InitSpecHdfs /\ [][NextHdfs]_vars

InitSpecError ==
    /\ LimitAtRest
    /\ InitHdfs
    /\ InitError
    /\ BuilderAtRest
    /\ ConfigAtRest
    /\ PagerAtRest
    /\ StreamAtRest
    /\ RaceAtRest

\* One Error value under any sequence of calls, in either build.
SpecError == InitSpecError /\ [][NextError]_vars

InitSpecBuilder ==
    /\ LimitAtRest
    /\ InitHdfs
    /\ ErrorAtRest
    /\ InitBuilder
    /\ ConfigAtRest
    /\ PagerAtRest
    /\ StreamAtRest
    /\ RaceAtRest

\* from_env under any environment.
SpecBuilder == InitSpecBuilder /\ [][NextBuilder]_vars

InitSpecConfig ==
    /\ LimitAtRest
    /\ InitHdfs
    /\ ErrorAtRest
    /\ BuilderAtRest
    /\ InitConfig
    /\ PagerAtRest
    /\ StreamAtRest
    /\ RaceAtRest

\* The two builders under any sequence of setter, from_map and build calls.
SpecConfig == InitSpecConfig /\ [][NextConfig]_vars

InitSpecPager ==
    /\ LimitAtRest
    /\ InitHdfs
    /\ ErrorAtRest
    /\ BuilderAtRest
    /\ ConfigAtRest
    /\ InitPager
    /\ StreamAtRest
    /\ RaceAtRest

\* One DirStream pager against a service that may fail any request.
SpecPager == InitSpecPager /\ [][NextPager]_vars

InitSpecStream ==
    /\ LimitAtRest
    /\ InitHdfs
    /\ ErrorAtRest
    /\ BuilderAtRest
    /\ ConfigAtRest
    /\ PagerAtRest
    /\ InitStream
    /\ RaceAtRest

\* One IntoStream polled any number of times.
SpecStream == InitSpecStream /\ [][NextStream]_vars

InitSpecRace ==
    /\ LimitAtRest
    /\ InitHdfs
    /\ ErrorAtRest
    /\ BuilderAtRest
    /\ ConfigAtRest
    /\ PagerAtRest
    /\ StreamAtRest
    /\ InitRace

\* Callers deleting one path of a name space at the same time.
SpecRace == InitSpecRace /\ [][NextRace]_vars

(***************************************************************************)
(* Part I: properties of the concurrent limit layer.                       *)
(***************************************************************************)
\* The semaphore created by layer().
Sem == semOf["layered"]

\* Callers whose operation has been admitted and has not returned.
InFlight == {c \in Callers : pc[c] \in {"granted", "inner"}}

\* Callers that own a reader or pager returned by read / list /
\* blocking_read / blocking_list.
Live == {c \in Callers : pc[c] = "stream"}

\* A permit of semaphore s went back in this step: to the free count, or
\* straight to the oldest waiter.
GivenBack(s) ==
    \/ available'[s] = available[s] + 1
    \/ \E h \in Callers : pc[h] = "waiting" /\ pc'[h] = "granted" /\ held'[h] = s

C2_ReleasedWhenExhausted ==
    \A c \in Callers :
        pc[c] = "stream" =>
            IF exhausted[c] THEN held[c] = NoSem ELSE held[c] = Sem

\* C2 (amended): a returned reader or pager holds exactly one permit from the
\* moment it is returned until it is dropped, also after it is exhausted,
\* and dropping it gives the permit back.
C2_HeldUntilDropped ==
    [][\A c \in Callers :
          /\ pc'[c] = "stream" => held'[c] = Sem /\ op'[c] \in StreamOps
          /\ (pc[c] = "stream" /\ pc'[c] = "stream") => held'[c] = held[c]
          /\ (pc[c] = "stream" /\ pc'[c] # "stream") =>
                 (held'[c] = NoSem /\ GivenBack(held[c]))]_limitVars

\* C2 witness: an exhausted reader or pager that is still alive.
C2_Witness ==
    \E c \in Callers : pc[c] = "stream" /\ exhausted[c] /\ available[Sem] = 0

C4_PermitsConserved ==
    /\ available[Sem] + Cardinality({c \in Callers : held[c] = Sem}) = permits
    /\ \A c \in Callers :
        /\ held[c] \in {NoSem, Sem}
        /\ held[c] = Sem <=>
              \/ pc[c] = "stream"
              \/ pc[c] \in {"granted", "inner"} /\ op[c] \in GatedOps

\* C4 witness: all permits are out, one of them with a waiter that has been
\* handed it and not yet resumed.
C4_Witness ==
    /\ permits = 1
    /\ available[Sem] = 0
    /\ \E c \in Callers : pc[c] = "granted" /\ op[c] = "list"

\* C5: a blocking operation never parks: with a free permit it takes it and
\* calls the inner accessor, without one it panics, holding nothing and
\* without calling the inner accessor.
C5_BlockingNeverWaits ==
    [][\A c \in Callers :
          /\ (pc[c] = "idle" /\ (op'[c] \in BlockingOps \/ pc'[c] = "panicked")) =>
                 IF available[Sem] = 0
                 THEN /\ pc'[c] = "panicked"
                      /\ held'[c] = NoSem
                      /\ waiters' = waiters
                 ELSE /\ pc'[c] = "inner"
                      /\ held'[c] = Sem
                      /\ available'[Sem] = available[Sem] - 1
          /\ pc'[c] \in {"waiting", "granted"} => op'[c] \in AsyncOps
          /\ pc[c] = "panicked" => pc'[c] = "panicked"]_limitVars

\* C5 witness: a blocking call found no permit and panicked.
C5_Witness ==
    \E c \in Callers : pc[c] = "panicked" /\ permits = 1

\* C6: acquisition is FIFO: a caller obtains a permit only if no caller that
\* requested before it (or, when it is served on arrival, no caller at all)
\* is left waiting.
C6_Fifo ==
    [][\A c \in Callers :
          (held[c] = NoSem /\ held'[c] # NoSem) =>
              \A d \in Callers \ {c} :
                  (pc[d] = "waiting" /\ pc'[d] = "waiting") => Precedes(order, c, d)]_limitVars

\* C6 witness: the oldest waiter has been handed a permit while a younger
\* one is still parked.
C6_Witness ==
    \E c, d \in Callers :
        /\ pc[c] = "granted"
        /\ pc[d] = "waiting"

\* C26: no starvation: when every inner call returns and every reader and
\* pager is dropped in the end, an async operation that waits for a permit
\* of a layer with at least one permit is admitted in the end and calls the
\* inner accessor, unless its caller drops the pending future first (the
\* caller is then idle without having been admitted).
C26_NoStarvation ==
    \A c \in Callers :
        (permits >= 1 /\ pc[c] = "waiting") ~> (pc[c] \in {"inner", "idle"})

\* C26 witness: a waiter has been handed a permit while another one waits.
C26_Witness ==
    /\ permits >= 1
    /\ \E c, d \in Callers : pc[c] = "granted" /\ pc[d] = "waiting"

(***************************************************************************)
(* Part II: properties of the HDFS backend.                                *)
(***************************************************************************)
\* The entity create(mode) makes.
ModeKind(mode) == IF mode = "DIR" THEN "dir" ELSE "file"

\* C7: round trip: after a successful write(path, bytes), whatever the path
\* held before, RpWrite reports |bytes|; read(path) without a range then
\* yields exactly bytes; stat(path) then reports content_length = |bytes|;
\* delete(path) then succeeds and stat(path) fails with ObjectNotFound.
C7_RoundTrip ==
    CASE rt.stage = 1 -> last.outcome = "ok" /\ last.n = Len(rt.bytes)
      [] rt.stage = 2 ->
             /\ last.outcome = "ok"
             /\ last.data = rt.bytes
             /\ last.n = Len(rt.bytes)
      [] rt.stage = 3 ->
             /\ last.outcome = "ok"
             /\ last.mode = "FILE"
             /\ last.n = Len(rt.bytes)
      [] rt.stage = 4 -> last.outcome = "ok" /\ fs[rt.node] = NoEntry
      [] rt.stage = 5 -> last.outcome = "err" /\ last.kind = "ObjectNotFound"
      [] OTHER -> TRUE

\* C7 witness: the whole chain has run for a non-empty content written over
\* a longer object.
C7_Witness ==
    /\ rt.stage = 5
    /\ rt.bytes # <<>>
    /\ rt.over > Len(rt.bytes)

\* C8: range read: for an object holding bytes and a range (off, len) with
\* 0 <= off <= off + len <= |bytes|, read and blocking_read succeed with a
\* reader over exactly bytes[off : off + len] and RpRead.size = len.
C8_RangeRead ==
    LET data == fs[last.node].data IN
    (/\ Base(last.op) = "read"
     /\ fs[last.node].kind = "file"
     /\ last.offset # None
     /\ last.size # None
     /\ last.offset + last.size <= Len(data)) =>
        /\ last.outcome = "ok"
        /\ last.n = last.size
        /\ last.data = SubSeq(data, last.offset + 1, last.offset + last.size)
        /\ Len(last.data) = last.n

\* C8 witness: a blocking read of a range that starts inside the object.
C8_Witness ==
    /\ last.op = "blocking_read"
    /\ last.outcome = "ok"
    /\ last.offset = 1
    /\ last.size = 1
    /\ Len(fs[last.node].data) >= last.offset + last.size

\* C9: delete is idempotent: delete and blocking_delete of a path that
\* does not exist succeed, issue no removal and leave the store as it is, so
\* a delete repeated after a successful delete succeeds as well.
C9_DeleteIdempotent ==
    [][Base(last'.op) = "delete" =>
          /\ fs[last'.node].kind = "none" =>
                 (last'.outcome = "ok" /\ ~last'.removed /\ fs' = fs)
          /\ again' => last'.outcome = "ok"]_hdfsVars

\* C9 witness: a blocking delete that repeats a successful delete and found
\* nothing to remove.
C9_Witness ==
    /\ last.op = "blocking_delete"
    /\ again
    /\ last.outcome = "ok"
    /\ ~last.removed

\* C10: create is idempotent for the same mode: create of an entity that
\* exists with that mode succeeds, and a create that repeats a successful
\* create (same path, same mode) succeeds and leaves the store as the first
\* left it.
C10_CreateIdempotent ==
    [][Base(last'.op) = "create" =>
          /\ fs[last'.node].kind = ModeKind(last'.mode) => last'.outcome = "ok"
          /\ again' => (last'.outcome = "ok" /\ fs' = fs)]_hdfsVars

\* C10 witness: a create of a file below a directory, repeated.
C10_Witness ==
    /\ Base(last.op) = "create"
    /\ again
    /\ last.outcome = "ok"
    /\ last.mode = "FILE"
    /\ last.node = "d/f"

\* C28 as stated: in read and blocking_read, for every range and every
\* object length the bounds satisfy 0 <= start <= end <= length, so neither
\* length - size nor end - start underflows.
C28_RangeWithinObject ==
    LET len == Len(fs[last.node].data)
        r == ReadRange(last.offset, last.size, len)
    IN  (Base(last.op) = "read" /\ fs[last.node].kind = "file") =>
            /\ 0 <= r.start
            /\ r.start <= r.end
            /\ r.end <= len
            /\ last.outcome = "ok"
            /\ last.n >= 0

\* C30: create and blocking_create with mode FILE on a path that holds a
\* file succeed and leave the file empty: a stat then reports content
\* length 0 and a read yields no bytes.
C30_CreateTruncates ==
    [][(Base(last'.op) = "create" /\ last'.mode = "FILE"
        /\ fs[last'.node].kind = "file") =>
          /\ last'.outcome = "ok"
          /\ fs'[last'.node] = FileEntry(<<>>)
          /\ DoStat(fs', last'.node).out.outcome = "ok"
          /\ DoStat(fs', last'.node).out.n = 0
          /\ DoRead(fs', last'.node, None, None, TRUE).out.outcome = "ok"
          /\ DoRead(fs', last'.node, None, None, TRUE).out.data = <<>>
      ]_hdfsVars

\* C30 witness: a blocking create found a file with content and left it
\* empty.
C30_Witness ==
    /\ last.op = "blocking_create"
    /\ last.mode = "FILE"
    /\ last.outcome = "ok"
    /\ full
    /\ fs[last.node] = FileEntry(<<>>)

(***************************************************************************)
(* Part III: properties of Error and of the conversions.                   *)
(***************************************************************************)
\* The calls that take the error at hand and return it.
ErrorMethods ==
    {"with_operation", "with_context", "set_source", "map",
     "set_permanent", "set_temporary", "set_persistent"}

\* The calls that make an error out of a backend's native error.
Conversions == {"parse_error", "from"}

\* The status a call names.
StatusSetBy(name) ==
    CASE name = "set_permanent" -> "Permanent"
      [] name = "set_temporary" -> "Temporary"
      [] name = "set_persistent" -> "Persistent"

\* C11 as stated: Permanent and Persistent are terminal: no call on an
\* Error (set_temporary, set_permanent, set_persistent, with_operation,
\* with_context, set_source, map) changes a Permanent or Persistent status,
\* and a Temporary status changes to Persistent only.
C11_TerminalStatuses ==
    [][call'.name \in ErrorMethods =>
          /\ err.status \in {"Permanent", "Persistent"} => err'.status = err.status
          /\ err.status = "Temporary" => err'.status \in {"Temporary", "Persistent"}
      ]_errorVars

\* C11 amended: with_operation, with_context and set_source never change
\* an Error's status and map changes it only as its closure does, while
\* set_permanent, set_temporary and set_persistent each set the status they
\* name whatever it was before.
C11_StatusSetOnlyBySetters ==
    [][/\ call'.name \in {"with_operation", "with_context", "set_source"} =>
              err'.status = err.status
       /\ call'.name \in {"set_permanent", "set_temporary", "set_persistent"} =>
              err'.status = StatusSetBy(call'.name)
       /\ call'.name = "map" =>
              err'.status = (IF call'.arg = "identity" THEN err.status
                             ELSE StatusSetBy(call'.arg))
      ]_errorVars

\* C11 witness: set_temporary has acted on an error that carries context
\* and a source.
C11_Witness ==
    /\ call.name = "set_temporary"
    /\ err.status = "Temporary"
    /\ err.context # <<>>
    /\ err.source # <<>>

\* C12: an error made by a backend conversion (azblob, ghac, ipmfs
\* parse_error, From<FtpError>) is Temporary exactly when the native error
\* was classified retryable and Permanent otherwise, never Persistent; and
\* an ObjectNotFound, ObjectPermissionDenied or ObjectAlreadyExists error
\* is never Temporary.
C12_StatusFromRetryable ==
    call.name \in Conversions =>
        /\ err.status = (IF call.retryable THEN "Temporary" ELSE "Permanent")
        /\ err.kind \in {"ObjectNotFound", "ObjectPermissionDenied",
                         "ObjectAlreadyExists"} => err.status # "Temporary"

\* C12 witness: a retryable FTP error and its Temporary conversion.
C12_Witness ==
    /\ call.name = "from"
    /\ call.backend = "ftp"
    /\ call.retryable
    /\ err.status = "Temporary"

\* C13 as stated: azblob, ghac and ipmfs parse_error turn a 429 response
\* into an ObjectRateLimited error with status Temporary.
C13_RateLimited ==
    (call.name = "parse_error" /\ call.code = 429) =>
        /\ err.kind = "ObjectRateLimited"
        /\ err.status = "Temporary"

\* C14 as stated: azblob, ghac and ipmfs parse_error turn a 500, 502, 503
\* or 504 response into an Unexpected error with status Temporary, whatever
\* the body.
C14_GatewayTemporary ==
    (call.name = "parse_error" /\ call.code \in {500, 502, 503, 504}) =>
        /\ err.kind = "Unexpected"
        /\ err.status = "Temporary"

\* C14 amended: azblob and ghac parse_error turn a 500, 502, 503 or 504
\* response, and ipmfs parse_error a 502, 503 or 504 response, into an
\* Unexpected error with status Temporary, whatever the body; ipmfs
\* parse_error turns a 500 response into a Permanent error, ObjectNotFound
\* when the body's Message is "file does not exist" and Unexpected otherwise.
C14_GatewayTemporaryButIpmfs500 ==
    (call.name = "parse_error" /\ call.code \in {500, 502, 503, 504}) =>
        IF call.backend = "ipmfs" /\ call.code = 500
        THEN /\ err.status = "Permanent"
             /\ err.kind = (IF call.ipfs = <<"file does not exist">>
                            THEN "ObjectNotFound" ELSE "Unexpected")
        ELSE /\ err.kind = "Unexpected"
             /\ err.status = "Temporary"

\* C14 witness: ghac has converted a 504 response with a body.
C14_Witness ==
    /\ call.name = "parse_error"
    /\ call.backend = "ghac"
    /\ call.code = 504
    /\ err.message = "boom"
    /\ err.status = "Temporary"

\* C15 as stated: azblob, ghac and ipmfs parse_error turn 404 and 204 into
\* ObjectNotFound, 403 into ObjectPermissionDenied and 409 into
\* ObjectAlreadyExists, each with status Permanent.
C15_ClientErrors ==
    call.name = "parse_error" =>
        /\ call.code \in {404, 204} =>
               (err.kind = "ObjectNotFound" /\ err.status = "Permanent")
        /\ call.code = 403 =>
               (err.kind = "ObjectPermissionDenied" /\ err.status = "Permanent")
        /\ call.code = 409 =>
               (err.kind = "ObjectAlreadyExists" /\ err.status = "Permanent")

\* s is t with pairs appended at its end.
IsPrefix(t, s) == Len(t) <= Len(s) /\ SubSeq(s, 1, Len(t)) = t

\* C16: enrichment is additive: a with_context, with_operation or
\* set_source call leaves the error's kind and status as they were and its
\* context list as the earlier list with pairs appended at the end; so does
\* any sequence of such calls.
C16_EnrichmentAdditive ==
    [][(call'.name \in {"with_context", "with_operation", "set_source"}
        /\ ~call'.panicked) =>
          /\ err'.kind = err.kind
          /\ err'.status = err.status
          /\ IsPrefix(err.context, err'.context)
      ]_errorVars

\* C16 witness: a Temporary error whose context was extended twice.
C16_Witness ==
    /\ call.name = "with_context"
    /\ Len(err.context) = 2
    /\ err.status = "Temporary"

\* The pair ("called", operation) is in the error's context.
Called(e, operation) ==
    \E i \in 1 .. Len(e.context) : e.context[i] = <<"called", operation>>

\* C17: with_operation(op) on an error without operation assigns op and
\* leaves the context as it is; on an error with an operation it appends
\* ("called", earlier operation) to the context and then assigns op; so
\* every operation name the error was given is its operation or is kept
\* in its context.
C17_WithOperation ==
    [][call'.name = "with_operation" =>
          /\ err'.operation = call'.arg
          /\ err.operation = "" => err'.context = err.context
          /\ err.operation # "" =>
                 err'.context = Append(err.context, <<"called", err.operation>>)
          /\ \A o \in assigned' : err'.operation = o \/ Called(err', o)
      ]_errorVars

\* C17 witness: an error given Read and then Write.
C17_Witness ==
    /\ call.name = "with_operation"
    /\ assigned = {"Read", "Write"}
    /\ err.operation = "Write"
    /\ Called(err, "Read")

RECURSIVE PairsFrom(_, _)
PairsFrom(context, i) ==
    IF i > Len(context) THEN ""
    ELSE (IF i > 1 THEN ", " ELSE "")
         \o context[i][1] \o ": " \o context[i][2]
         \o PairsFrom(context, i + 1)

\* C19: Display renders "<kind> (<status>) at <operation>", then
\* ", context: { k1: v1, k2: v2 }" in context order when the context is not
\* empty, then " => <message>" when the message is not empty, then
\* ", source: <source>" when a source is set; Unexpected/Permanent at Read
\* with context path=/p, message boom and source net renders as
\* "Unexpected (permanent) at Read, context: { path: /p } => boom, source: net".
C19_Display ==
    call.name = "fmt" =>
        /\ \E k \in ErrorKinds, s \in {"permanent", "temporary", "persistent"} :
              /\ k = err.kind
              /\ s = StatusDisplay(err.status)
              /\ rendered =
                    k \o " (" \o s \o ") at " \o err.operation
                    \o (IF Len(err.context) > 0
                        THEN ", context: { " \o PairsFrom(err.context, 1) \o " }"
                        ELSE "")
                    \o (IF err.message # "" THEN " => " \o err.message ELSE "")
                    \o (IF Len(err.source) = 1
                        THEN ", source: " \o err.source[1] ELSE "")
        /\ err = [kind |-> "Unexpected", message |-> "boom",
                  status |-> "Permanent", operation |-> "Read",
                  context |-> <<<<"path", "/p">>>>, source |-> <<"net">>] =>
              rendered = "Unexpected (permanent) at Read, context: { path: /p } => boom, source: net"

\* C19 witness: the example error has been rendered.
C19_Witness ==
    /\ call.name = "fmt"
    /\ err.context = <<<<"path", "/p">>>>
    /\ rendered = "Unexpected (permanent) at Read, context: { path: /p } => boom, source: net"

(***************************************************************************)
(* Part IV: properties of Builder::from_env.                                *)
(***************************************************************************)
\* OPENDAL_<SCHEME>_ for the scheme at hand.
NamePrefix == <<"O", "P", "E", "N", "D", "A", "L", "_", "S", "3", "_">>

\* The name starts with the prefix, letter case aside.
StartsWithPrefix(name) ==
    /\ Len(name) >= Len(NamePrefix)
    /\ \A i \in 1 .. Len(NamePrefix) : ToLower(name[i]) = ToLower(NamePrefix[i])

\* The lowercased suffix of a name after the prefix.
KeyOf(name) == ToLowercase(SubSeq(name, Len(NamePrefix) + 1, Len(name)))

\* The places in the environment of the variables with the prefix, and of
\* those among them with a given key.
Prefixed(env) == {i \in 1 .. Len(env) : StartsWithPrefix(env[i][1])}
WithKey(env, key) == {i \in Prefixed(env) : KeyOf(env[i][1]) = key}

\* C20 as stated: from_env passes to from_map exactly the variables whose
\* name starts, letter case aside, with OPENDAL_<SCHEME>_: each contributes
\* the entry (lowercased suffix -> its unchanged value), the others
\* contribute nothing.
C20_FromEnvExact ==
    built # NotBuilt =>
        /\ built.done
        /\ \A i \in Prefixed(environ) :
              /\ KeyOf(environ[i][1]) \in DOMAIN built.map
              /\ built.map[KeyOf(environ[i][1])] = environ[i][2]
        /\ \A key \in DOMAIN built.map : WithKey(environ, key) # {}

\* C20 amended: when every variable is valid Unicode, from_env passes to
\* from_map a map whose keys are exactly the lowercased suffixes of the
\* variables whose name starts, letter case aside, with OPENDAL_<SCHEME>_;
\* a key's value is the unchanged value of the variable with that key, the
\* last one in the environment's order when several names differ only in
\* letter case; otherwise env::vars() panics and from_map is not called.
C20_FromEnvLastWins ==
    built # NotBuilt =>
        IF \E i \in 1 .. Len(environ) : environ[i][2] = NotUnicode
        THEN built.panicked /\ ~built.done
        ELSE /\ built.done
             /\ DOMAIN built.map = {KeyOf(environ[i][1]) : i \in Prefixed(environ)}
             /\ \A key \in DOMAIN built.map :
                   \E i \in WithKey(environ, key) :
                       /\ \A j \in WithKey(environ, key) : j <= i
                       /\ built.map[key] = environ[i][2]

\* C20 witness: OPENDAL_S3_BUCKET=Y after opendal_s3_bucket=x gives
\* bucket=Y.
C20_Witness ==
    /\ built.done
    /\ Len(environ) = 2
    /\ environ[1][1] = ToLowercase(NamePrefix) \o <<"b", "u", "c", "k", "e", "t">>
    /\ environ[2][1] = NamePrefix \o <<"B", "U", "C", "K", "E", "T">>
    /\ environ[1][2] = <<"x">>
    /\ environ[2][2] = <<"Y">>
    /\ built.map[<<"b", "u", "c", "k", "e", "t">>] = <<"Y">>

(***************************************************************************)
(* Part V: properties of the builders.                                     *)
(***************************************************************************)
\* The error a build call returned carries the pair (key, value).
HasContext(result, key, value) ==
    \E i \in 1 .. Len(result.error[1].context) :
        result.error[1].context[i] = <<key, value>>

\* The last call was build on the builder of this service.
BuildOf(service) == config.call = "build" /\ config.service = service

\* C21: HdfsBuilder::build on a builder with no name node, and
\* RocksdbBuilder::build on a builder with no datadir, return an error of
\* kind BackendConfigInvalid that carries the context pair (service, hdfs)
\* or (service, rocksdb), and return it without calling connect or
\* open_default.
C21_MissingRequiredField ==
    /\ (BuildOf("hdfs") /\ config.before.name_node = <<>>) =>
           LET r == config.result[1] IN
           /\ r.outcome = "err"
           /\ r.error[1].kind = "BackendConfigInvalid"
           /\ HasContext(r, "service", "hdfs")
           /\ ~r.attempted
    /\ (BuildOf("rocksdb") /\ config.before.datadir = <<>>) =>
           LET r == config.result[1] IN
           /\ r.outcome = "err"
           /\ r.error[1].kind = "BackendConfigInvalid"
           /\ HasContext(r, "service", "rocksdb")
           /\ ~r.attempted

\* C21 happens: build was called on an HdfsBuilder that has a root and no
\* name node, and returned an error.
C21_Witness ==
    /\ BuildOf("hdfs")
    /\ config.before = [root |-> <<"/r">>, name_node |-> <<>>]
    /\ config.result[1].outcome = "err"

\* C25 as stated: RocksdbBuilder::from_map takes both documented keys from
\* the map, as the setters would: a non-empty root becomes the builder's
\* root and a datadir becomes the builder's datadir.
C25_FromMapHonoursBothKeys ==
    (config.call = "from_map" /\ config.service = "rocksdb") =>
        /\ ("root" \in DOMAIN config.map /\ config.map["root"] # "") =>
               rocksdbBuilder.root = <<config.map["root"]>>
        /\ "datadir" \in DOMAIN config.map =>
               rocksdbBuilder.datadir = <<config.map["datadir"]>>

(***************************************************************************)
(* Part VI: properties of the DirStream pager.                             *)
(***************************************************************************)
\* C22 as stated: once a next_page call has returned None, every later
\* call returns None and sends no list request.
C22_NoneIsFinal ==
    [][ended => (requests' = requests /\ reply'.kind = "end")]_pagerVars

\* C27 as stated: a next_page call that returns an error leaves the
\* continuation and the done flag as they were before the call.
C27_ErrorLeavesCursor == reply.kind = "err" => stream = reply.before

\* C24 as stated: the first request carries the empty continuation, each
\* later request carries the token sent with the page returned last, the
\* pages come back in the service's order with none skipped or repeated,
\* and the pager is done only once the last page has been returned.
C24_EveryPageOnce ==
    /\ requests # <<>> => requests[1] = EmptyContinuation
    /\ reply.sent # NoRequest =>
           reply.sent = Len(delivered) - (IF reply.kind = "some" THEN 1 ELSE 0)
    /\ delivered = [i \in 1 .. Len(delivered) |-> i]
    /\ stream.done => Len(delivered) = listing

(***************************************************************************)
(* Part VII: properties of IntoStream.                                     *)
(***************************************************************************)
\* C23: the chunks yielded so far, concatenated in order, are the bytes of
\* the content up to the reader's position; once poll_next has returned
\* None they are the whole content; every chunk is non-empty and no longer
\* than the capacity.
C23_ChunksPreserveBytes ==
    /\ Concat(chunks) = SubSeq(content, 1, pos)
    /\ polled = "end" => Concat(chunks) = content
    /\ \A i \in 1 .. Len(chunks) : Len(chunks[i]) >= 1 /\ Len(chunks[i]) <= cap

\* C23 happens: a content longer than the capacity was read to its end in
\* more than one chunk, one of them shorter than the capacity.
C23_Witness ==
    /\ polled = "end"
    /\ Len(content) > cap
    /\ Len(chunks) > 1
    /\ \E i \in 1 .. Len(chunks) : Len(chunks[i]) < cap

(***************************************************************************)
(* Part VIII: properties of concurrent deletes.                            *)
(***************************************************************************)
\* C29 as stated: when the callers delete a path that existed when they
\* began (a file or an empty directory), then once all of them have
\* returned, all of them have returned success and the path is absent.
C29_ConcurrentDeleteIdempotent ==
    (/\ began.entry.kind # "none"
     /\ began.leaf
     /\ \A i \in Deleters : deleter[i].pc = "done") =>
        /\ \A i \in Deleters : deleter[i].out.outcome = "ok"
        /\ tree[began.node].kind = "none"

====
